---- MODULE Spec2Model ----
(***************************************************************************)
(* A model of the unhook feed-to-EPUB pipeline: dedupe_posts,              *)
(* find_self_threads, consolidate_threads_to_posts, _apply_link_facets,    *)
(* _filter_by_length, export_recent_posts_to_epub and fetch_feed_posts.    *)
(*                                                                         *)
(* Strings the code takes apart or concatenates are sequences: a text is   *)
(* a sequence of characters, a URI a sequence of tokens (<<"u1">>, and     *)
(* <<"u1", "#thread">> for f"{root_uri}#thread").  The empty sequence is   *)
(* the falsy value of a .get(): a missing key, None or "".                 *)
(***************************************************************************)
EXTENDS Integers, Sequences, FiniteSets, TLC

VARIABLES
    pc,       \* position of the function or pipeline under analysis
    arg,      \* argument of the pure function under analysis
    ret,      \* its return value
    \* fetch_feed_posts (unhook.feed)
    env,        \* BLUESKY_HANDLE and BLUESKY_APP_PASSWORD
    call,       \* the arguments: limit, since_days, current_date, feed
    cutoff,     \* the cutoff datetime, NoCutoff when filtering is off
    logged_in,  \* client.login() was called
    all_posts,  \* the posts collected so far
    cursor,     \* the cursor for the next page
    request,    \* the last get_timeline / get_author_feed call
    dropped,    \* the items of the last page skipped as older than the cutoff
    calls,      \* the number of page requests made (the client's call count)
    served,     \* the number of items the server has handed out in short pages
    response,   \* the last response: its feed and its cursor
    \* export_recent_posts_to_epub
    ex,         \* its arguments and local variables, <<>> before the call
    \* the command line, the Gmail service and the network
    cli,        \* an invocation of the export-epub command, <<>> when there is none
    gmail,      \* a GmailService object and its IMAP server, or a run of
                \* export_gmail_to_epub; <<>> when there is none
    net         \* the image downloads of one export, or a run of
                \* fetch_twitter_posts; <<>> when there is none

pureData == <<arg, ret>>
fetchData == <<env, call, cutoff, logged_in, all_posts, cursor, request, dropped, calls, served, response>>
ioData == <<cli, gmail, net>>
vars == <<pc, pureData, fetchData, ex, ioData>>

\* The variables of the parts that are not under analysis keep these values.
PureIdle == arg = <<>> /\ ret = <<>>
FetchIdle ==
    /\ env = <<>> /\ call = <<>> /\ cutoff = -1 /\ logged_in = FALSE
    /\ all_posts = <<>> /\ cursor = "" /\ request = <<>> /\ dropped = <<>>
    /\ calls = 0 /\ served = 0 /\ response = <<>>
ExportIdle == ex = <<>>
IoIdle == cli = <<>> /\ gmail = <<>> /\ net = <<>>

----------------------------------------------------------------------------
(* Generic helpers.                                                        *)

\* All sequences over S of length 0..n.
SeqsUpTo(S, n) == UNION {[1..k -> S] : k \in 0..n}

Range(s) == {s[i] : i \in 1..Len(s)}

\* The falsy result of dict.get(): None, a missing key or "".
NoUri == <<>>
NoAuthor == ""
NoTime == -1

\* A feed item as item.model_dump() gives it, restricted to the fields the
\* pipeline reads: post.uri, post.author (did or handle), record.reply.parent.uri,
\* record.text, record.created_at, embed.images, reason.$type, reason.by.
MkPost(uri, author, parent, text, created, images, isRepost, by) ==
    [uri |-> uri, author |-> author, parent |-> parent, text |-> text,
     created_at |-> created, images |-> images, repost |-> isRepost, by |-> by]

----------------------------------------------------------------------------
(* dedupe_posts                                                            *)

\* The loop of dedupe_posts from position i on, with the `seen` set and the
\* `unique_posts` list built so far.
RECURSIVE DedupeLoop(_, _, _, _)
DedupeLoop(posts, i, seen, unique_posts) ==
    IF i > Len(posts) THEN unique_posts
    ELSE LET uri == posts[i].uri IN
         IF uri # NoUri /\ uri \notin seen
         THEN DedupeLoop(posts, i + 1, seen \cup {uri}, Append(unique_posts, posts[i]))
         ELSE DedupeLoop(posts, i + 1, seen, unique_posts)

\* A dedupe that keeps the last occurrence of a URI instead of the first.
RECURSIVE DedupeKeepLast(_, _, _)
DedupeKeepLast(posts, i, unique_posts) ==
    IF i > Len(posts) THEN unique_posts
    ELSE LET uri == posts[i].uri
             later == \E j \in (i + 1)..Len(posts) : posts[j].uri = uri
         IN IF uri # NoUri /\ ~later
            THEN DedupeKeepLast(posts, i + 1, Append(unique_posts, posts[i]))
            ELSE DedupeKeepLast(posts, i + 1, unique_posts)

dedupe_posts_last(posts) == DedupeKeepLast(posts, 1, <<>>)

dedupe_posts(posts) == DedupeLoop(posts, 1, {}, <<>>)

\* Inputs of dedupe_posts: posts with or without a URI; the text tells two
\* posts of one URI apart.
DedupeUris == {NoUri, <<"u1">>, <<"u2">>, <<"u3">>}
DedupeTexts == {<<"a">>, <<"b">>}
DedupeInputs ==
    {MkPost(u, "a", NoUri, t, 1, <<>>, FALSE, "") : u \in DedupeUris, t \in DedupeTexts}

MaxDedupeLen == 4

InitDedupe ==
    /\ pc = "dedupe_call"
    /\ arg \in SeqsUpTo(DedupeInputs, MaxDedupeLen)
    /\ ret = <<>>
    /\ FetchIdle /\ ExportIdle /\ IoIdle

CallDedupe ==
    /\ pc = "dedupe_call"
    /\ ret' = dedupe_posts(arg)
    /\ pc' = "dedupe_return"
    /\ UNCHANGED <<arg, fetchData, ex, ioData>>

NextDedupe == CallDedupe

SpecDedupe == InitDedupe /\ [][NextDedupe]_vars

\* Position of the first post of `posts` that carries `uri`.
FirstIndex(posts, uri) ==
    CHOOSE i \in 1..Len(posts) :
        posts[i].uri = uri /\ \A j \in 1..(i - 1) : posts[j].uri # uri

\* C1: the output of dedupe_posts holds each URI of the input exactly once,
\* in the order of the URIs' first occurrences; the post kept for a URI is
\* its first occurrence; posts without a URI are dropped.
C1_DedupeFirstOccurrences ==
    pc = "dedupe_return" =>
        /\ \A i \in 1..Len(ret) : ret[i].uri # NoUri
        /\ {ret[i].uri : i \in 1..Len(ret)} = {arg[i].uri : i \in 1..Len(arg)} \ {NoUri}
        /\ \A i, j \in 1..Len(ret) : i # j => ret[i].uri # ret[j].uri
        /\ \A i \in 1..Len(ret) : ret[i] = arg[FirstIndex(arg, ret[i].uri)]
        /\ \A i, j \in 1..Len(ret) :
               i < j => FirstIndex(arg, ret[i].uri) < FirstIndex(arg, ret[j].uri)

\* A call that meets a repeated URI with a different second post, a post
\* without a URI, and keeps two posts.
C1_Witness ==
    /\ pc = "dedupe_return"
    /\ Len(ret) = 2
    /\ \E i, j \in 1..Len(arg) : i < j /\ arg[i].uri = arg[j].uri /\ arg[i].uri # NoUri
                                  /\ arg[i] # arg[j]
    /\ \E i \in 1..Len(arg) : arg[i].uri = NoUri

----------------------------------------------------------------------------
(* _filter_by_length                                                       *)

\* A PostContent record.  `src` is not a field of the dataclass: it records
\* the URI of the raw post the item was mapped from, for the statements
\* about where an item comes from.
MkContent(title, author, published, body, image_urls, reposted_by, src) ==
    [title |-> title, author |-> author, published |-> published, body |-> body,
     image_urls |-> image_urls, reposted_by |-> reposted_by, src |-> src]

\* The filter with the boundary excluded.
_filter_by_length_strict(posts, min_length) ==
    SelectSeq(posts, LAMBDA post : Len(post.body) > min_length)

\* [post for post in posts if len(post.body) >= min_length]
_filter_by_length(posts, min_length) ==
    SelectSeq(posts, LAMBDA post : Len(post.body) >= min_length)

MaxBodyLen == 3
MaxFilterLen == 3

FilterBodies == {[i \in 1..n |-> "x"] : n \in 0..MaxBodyLen}
FilterInputs ==
    {MkContent(t, "a", 1, b, <<>>, "", NoUri) : t \in {"t1", "t2"}, b \in FilterBodies}

InitFilter ==
    /\ pc = "filter_call"
    /\ arg \in [posts : SeqsUpTo(FilterInputs, MaxFilterLen),
                min_length : 0..(MaxBodyLen + 1)]
    /\ ret = <<>>
    /\ FetchIdle /\ ExportIdle /\ IoIdle

CallFilter ==
    /\ pc = "filter_call"
    /\ ret' = _filter_by_length(arg.posts, arg.min_length)
    /\ pc' = "filter_return"
    /\ UNCHANGED <<arg, fetchData, ex, ioData>>

NextFilter == CallFilter

SpecFilter == InitFilter /\ [][NextFilter]_vars

\* The k-th smallest element of a set of positions.
KthOf(S, k) == CHOOSE i \in S : Cardinality({j \in S : j <= i}) = k

\* C5: an item is in the output of _filter_by_length if and only if the
\* length of its body is >= min_length (boundary included), and the output
\* keeps the input order.
C5_FilterByLength ==
    pc = "filter_return" =>
        LET long == {i \in 1..Len(arg.posts) : Len(arg.posts[i].body) >= arg.min_length}
        IN /\ Len(ret) = Cardinality(long)
           /\ \A k \in 1..Len(ret) : ret[k] = arg.posts[KthOf(long, k)]

\* A call that keeps an item whose body is exactly min_length long, drops a
\* shorter one that stands before a kept one.
C5_Witness ==
    /\ pc = "filter_return"
    /\ arg.min_length > 0
    /\ \E i \in 1..Len(ret) : Len(ret[i].body) = arg.min_length
    /\ \E i, j \in 1..Len(arg.posts) :
           i < j /\ Len(arg.posts[i].body) < arg.min_length
                 /\ Len(arg.posts[j].body) > arg.min_length
    /\ Len(ret) = 2

----------------------------------------------------------------------------
(* consolidate_threads_to_posts                                            *)

Whitespace == {" ", "\n"}

RECURSIVE LStrip(_)
LStrip(s) == IF s = <<>> \/ Head(s) \notin Whitespace THEN s ELSE LStrip(Tail(s))

RECURSIVE RStrip(_)
RStrip(s) ==
    IF s = <<>> \/ s[Len(s)] \notin Whitespace THEN s ELSE RStrip(SubSeq(s, 1, Len(s) - 1))

\* str.strip()
Strip(s) == RStrip(LStrip(s))

\* sep.join(parts)
RECURSIVE Join(_, _)
Join(parts, sep) ==
    IF parts = <<>> THEN <<>>
    ELSE IF Len(parts) = 1 THEN parts[1]
    ELSE parts[1] \o sep \o Join(Tail(parts), sep)

ThreadSep == <<"\n", "\n">>
ThreadMarker == <<"#thread">>

\* An image of embed.images: a dict with "fullsize" and "thumb", "" when the
\* key is missing.
MkImage(fullsize, thumb) == [fullsize |-> fullsize, thumb |-> thumb]

\* image.get("fullsize") or image.get("thumb")
ImageUrl(image) == IF image.fullsize # "" THEN image.fullsize ELSE image.thumb

\* The `for image in embed.get("images")` loop: {"fullsize": url} for every
\* image that has a URL.
RECURSIVE EntryImages(_, _)
EntryImages(images, i) ==
    IF i > Len(images) THEN <<>>
    ELSE LET url == ImageUrl(images[i]) IN
         (IF url # "" THEN <<MkImage(url, "")>> ELSE <<>>) \o EntryImages(images, i + 1)

\* The `for entry in thread` loop: the body parts and images collected from
\* entry i on.
RECURSIVE ThreadParts(_, _, _, _)
ThreadParts(thread, i, body_parts, images) ==
    IF i > Len(thread) THEN [body_parts |-> body_parts, images |-> images]
    ELSE LET text == Strip(thread[i].text) IN
         ThreadParts(thread, i + 1,
                     IF text # <<>> THEN Append(body_parts, text) ELSE body_parts,
                     images \o EntryImages(thread[i].images, 1))

\* A consolidation that takes the URI and timestamp of the last post of the
\* chain instead of the root's.
ConsolidateThreadFromLeaf(thread) ==
    LET leaf_post == thread[Len(thread)]
        parts == ThreadParts(thread, 1, <<>>, <<>>)
    IN MkPost(leaf_post.uri \o ThreadMarker, leaf_post.author, NoUri,
              Join(parts.body_parts, ThreadSep), leaf_post.created_at,
              parts.images, FALSE, "")

\* The synthetic post of one non-empty thread.
ConsolidateThread(thread) ==
    LET root_post == thread[1]
        parts == ThreadParts(thread, 1, <<>>, <<>>)
    IN MkPost(root_post.uri \o ThreadMarker, root_post.author, NoUri,
              Join(parts.body_parts, ThreadSep), root_post.created_at,
              parts.images, FALSE, "")

RECURSIVE ConsolidateLoop(_, _)
ConsolidateLoop(threads, i) ==
    IF i > Len(threads) THEN <<>>
    ELSE (IF threads[i] = <<>> THEN <<>> ELSE <<ConsolidateThread(threads[i])>>)
         \o ConsolidateLoop(threads, i + 1)

consolidate_threads_to_posts(threads) == ConsolidateLoop(threads, 1)

\* Inputs of consolidate_threads_to_posts: a base post and its variations in
\* identity (URI, author, timestamp), text and images.
Img1 == MkImage("full1", "thumb1")
Img2 == MkImage("", "thumb2")
ImgNoUrl == MkImage("", "")

ConsPosts ==
    {MkPost(<<"u1">>, "a", NoUri, <<"a">>, 1, <<>>, FALSE, ""),
     MkPost(<<"u2">>, "b", <<"u1">>, <<"a">>, 2, <<>>, FALSE, ""),
     MkPost(NoUri, NoAuthor, NoUri, <<"a">>, NoTime, <<>>, FALSE, ""),
     MkPost(<<"u1">>, "a", NoUri, <<" ", "b", "\n">>, 1, <<>>, FALSE, ""),
     MkPost(<<"u1">>, "a", NoUri, <<" ">>, 1, <<>>, FALSE, ""),
     MkPost(<<"u1">>, "a", NoUri, <<>>, 1, <<>>, FALSE, ""),
     MkPost(<<"u1">>, "a", NoUri, <<"a">>, 1, <<Img1>>, FALSE, ""),
     MkPost(<<"u1">>, "a", NoUri, <<"a">>, 1, <<Img2, ImgNoUrl, Img1>>, FALSE, "")}

\* The posts of all chains of one call together.
MaxConsPosts == 3

RECURSIVE SumSeq(_)
SumSeq(s) == IF s = <<>> THEN 0 ELSE Head(s) + SumSeq(Tail(s))

\* The ways to cut n posts into at most MaxConsPosts chains, empty chains
\* included: the chains' lengths.
CutsOf == [n \in 0..MaxConsPosts |->
              {l \in SeqsUpTo(0..n, MaxConsPosts) : SumSeq(l) = n}]

\* flat, cut into chains of the lengths lens.
RECURSIVE Split(_, _)
Split(flat, lens) ==
    IF lens = <<>> THEN <<>>
    ELSE <<SubSeq(flat, 1, Head(lens))>>
         \o Split(SubSeq(flat, Head(lens) + 1, Len(flat)), Tail(lens))

InitConsolidate ==
    /\ pc = "consolidate_call"
    /\ \E flat \in SeqsUpTo(ConsPosts, MaxConsPosts) :
           \E lens \in CutsOf[Len(flat)] : arg = Split(flat, lens)
    /\ ret = <<>>
    /\ FetchIdle /\ ExportIdle /\ IoIdle

CallConsolidate ==
    /\ pc = "consolidate_call"
    /\ ret' = consolidate_threads_to_posts(arg)
    /\ pc' = "consolidate_return"
    /\ UNCHANGED <<arg, fetchData, ex, ioData>>

NextConsolidate == CallConsolidate

SpecConsolidate == InitConsolidate /\ [][NextConsolidate]_vars

\* s without its leading and trailing whitespace, by positions.
Trimmed(s) ==
    LET solid == {i \in 1..Len(s) : s[i] \notin Whitespace}
    IN IF solid = {} THEN <<>>
       ELSE SubSeq(s, CHOOSE i \in solid : \A j \in solid : i <= j,
                      CHOOSE i \in solid : \A j \in solid : i >= j)

\* The text a chain is expected to give: its members' trimmed, non-empty
\* texts in chain order, a blank line between two of them.
RECURSIVE ExpectedThreadText(_)
ExpectedThreadText(thread) ==
    IF thread = <<>> THEN <<>>
    ELSE LET front == ExpectedThreadText(SubSeq(thread, 1, Len(thread) - 1))
             last == Trimmed(thread[Len(thread)].text)
         IN IF last = <<>> THEN front
            ELSE IF front = <<>> THEN last
            ELSE front \o <<"\n", "\n">> \o last

\* The image URLs a chain is expected to give, in chain order.
RECURSIVE ExpectedThreadUrls(_)
ExpectedThreadUrls(thread) ==
    IF thread = <<>> THEN <<>>
    ELSE LET front == ExpectedThreadUrls(SubSeq(thread, 1, Len(thread) - 1))
             imgs == thread[Len(thread)].images
             withUrl == SelectSeq(imgs, LAMBDA im : im.fullsize # "" \/ im.thumb # "")
         IN front \o [i \in 1..Len(withUrl) |->
                         IF withUrl[i].fullsize # "" THEN withUrl[i].fullsize
                         ELSE withUrl[i].thumb]

\* C2: every non-empty chain yields exactly one synthetic post: its text is
\* the members' stripped, non-empty texts joined by a blank line in chain
\* order, its URI the root's URI followed by "#thread", its created_at the
\* root's, its images all members' images (those that carry a URL) in chain
\* order.
C2_ConsolidateThreads ==
    pc = "consolidate_return" =>
        LET full == {i \in 1..Len(arg) : arg[i] # <<>>}
        IN /\ Len(ret) = Cardinality(full)
           /\ \A k \in 1..Len(ret) :
                  LET thread == arg[KthOf(full, k)]
                  IN /\ ret[k].text = ExpectedThreadText(thread)
                     /\ ret[k].uri = thread[1].uri \o <<"#thread">>
                     /\ ret[k].created_at = thread[1].created_at
                     /\ [i \in 1..Len(ret[k].images) |-> ret[k].images[i].fullsize]
                            = ExpectedThreadUrls(thread)

\* A call with an empty chain between two chains, the first of them with two
\* members whose texts are joined, an image, and a root that differs from
\* its reply in URI and timestamp.
C2_Witness ==
    /\ pc = "consolidate_return"
    /\ Len(arg) = 3 /\ arg[2] = <<>> /\ Len(ret) = 2
    /\ Len(arg[1]) = 2
    /\ arg[1][1].uri # arg[1][2].uri
    /\ arg[1][1].created_at # arg[1][2].created_at
    /\ ret[1].text = <<"a", "\n", "\n", "a">>
    /\ ret[2].images # <<>>

----------------------------------------------------------------------------
(* _apply_link_facets                                                      *)

\* text.encode("utf-8"): an ASCII character is one byte, the character "é"
\* the two bytes C3 A9.
EncodeChar(c) == IF c = "é" THEN <<"C3", "A9">> ELSE <<c>>

RECURSIVE Utf8Encode(_)
Utf8Encode(text) ==
    IF text = <<>> THEN <<>> ELSE EncodeChar(Head(text)) \o Utf8Encode(Tail(text))

\* bytes.decode("utf-8", errors="replace"): a lead byte without its
\* continuation byte, and a continuation byte on its own, decode to U+FFFD.
RECURSIVE Utf8Decode(_)
Utf8Decode(bytes) ==
    IF bytes = <<>> THEN <<>>
    ELSE IF Head(bytes) = "C3"
         THEN IF Len(bytes) >= 2 /\ bytes[2] = "A9"
              THEN <<"é">> \o Utf8Decode(SubSeq(bytes, 3, Len(bytes)))
              ELSE <<"FFFD">> \o Utf8Decode(Tail(bytes))
    ELSE IF Head(bytes) = "A9" THEN <<"FFFD">> \o Utf8Decode(Tail(bytes))
    ELSE <<Head(bytes)>> \o Utf8Decode(Tail(bytes))

\* A key that index.get() does not find (None).
Absent == -100

LinkType == "app.bsky.richtext.facet#link"
MentionType == "app.bsky.richtext.facet#mention"

\* A facet: index.byteStart, index.byte_start, index.byteEnd, index.byte_end
\* (Absent when the key is missing) and its features, each with its type
\* ($type or py_type) and its uri ("" with isStr FALSE when it is no string).
MkFacet(byteStart, byte_start, byteEnd, byte_end, features) ==
    [byteStart |-> byteStart, byte_start |-> byte_start,
     byteEnd |-> byteEnd, byte_end |-> byte_end, features |-> features]

MkFeature(type, uri, isStr) == [type |-> type, uri |-> uri, isStr |-> isStr]

\* a or b, for two results of index.get(): a when it is truthy (present and
\* not 0), else b.
GetOr(a, b) == IF a # Absent /\ a # 0 THEN a ELSE b

\* The order of sorted() on (byte_start, byte_end, uri) tuples; the URIs of
\* the inputs are "U" < "V".
UriRank(u) == IF u = "U" THEN 1 ELSE 2

TupleLess(a, b) ==
    \/ a[1] < b[1]
    \/ a[1] = b[1] /\ a[2] < b[2]
    \/ a[1] = b[1] /\ a[2] = b[2] /\ UriRank(a[3]) < UriRank(b[3])

\* sorted(seq): insertion of each element after the elements not greater.
RECURSIVE InsertSorted(_, _)
InsertSorted(sorted, x) ==
    IF sorted = <<>> THEN <<x>>
    ELSE IF TupleLess(x, Head(sorted)) THEN <<x>> \o sorted
    ELSE <<Head(sorted)>> \o InsertSorted(Tail(sorted), x)

RECURSIVE SortedTuples(_)
SortedTuples(seq) ==
    IF seq = <<>> THEN <<>>
    ELSE InsertSorted(SortedTuples(SubSeq(seq, 1, Len(seq) - 1)), seq[Len(seq)])

\* next(feature for feature in features if it is a link with a str uri)
RECURSIVE FirstLinkFeature(_, _)
FirstLinkFeature(features, i) ==
    IF i > Len(features) THEN <<>>
    ELSE IF features[i].type = LinkType /\ features[i].isStr THEN <<features[i]>>
    ELSE FirstLinkFeature(features, i + 1)

\* The `for facet in facets` loop: the (byte_start, byte_end, uri) tuples of
\* the facets that pass every check, in input order.
RECURSIVE Replacements(_, _, _)
Replacements(facets, i, nbytes) ==
    IF i > Len(facets) THEN <<>>
    ELSE LET index == facets[i]
             byte_start == GetOr(index.byteStart, index.byte_start)
             byte_end == GetOr(index.byteEnd, index.byte_end)
             link == FirstLinkFeature(facets[i].features, 1)
             rest == Replacements(facets, i + 1, nbytes)
         IN IF byte_start = Absent \/ byte_end = Absent THEN rest
            ELSE IF byte_start < 0 \/ byte_end > nbytes \/ byte_start >= byte_end THEN rest
            ELSE IF link = <<>> THEN rest
            ELSE <<<<byte_start, byte_end, link[1].uri>>>> \o rest

\* "link" followed by the number idx.
LinkLabel(idx) == <<"link", ToString(idx)>>

\* f"[{label}]({uri})".encode()
LinkMarkup(idx, uri) == <<"[">> \o LinkLabel(idx) \o <<"]", "(", uri, ")">>

\* bytes[a:b] for 0 <= a.
Slice(bytes, a, b) ==
    SubSeq(bytes, a + 1, IF b > Len(bytes) THEN Len(bytes) ELSE b)

\* The `for ... in sorted(numbered, reverse=True)` loop: the replacements
\* applied from the last one to the first; k counts down.
RECURSIVE ApplyBackward(_, _, _)
ApplyBackward(byte_text, sorted, k) ==
    IF k = 0 THEN byte_text
    ELSE LET r == sorted[k] IN
         ApplyBackward(Slice(byte_text, 0, r[1]) \o LinkMarkup(k, r[3])
                           \o Slice(byte_text, r[2], Len(byte_text)),
                       sorted, k - 1)

_apply_link_facets(text, facets) ==
    IF text = <<>> \/ facets = <<>> THEN text
    ELSE LET byte_text == Utf8Encode(text)
             sorted == SortedTuples(Replacements(facets, 1, Len(byte_text)))
         IN Utf8Decode(ApplyBackward(byte_text, sorted, Len(sorted)))

\* Inputs of _apply_link_facets: a text of ASCII characters, one with a
\* two-byte character, and facets whose offsets run from below 0 to beyond
\* the text, keyed in either spelling, with a link or a mention feature.
FacetTexts == {<<"a", "b", "c">>, <<"a", "é", "b">>}
MaxFacets == 2
MaxOffset == 5

FacetFeatures ==
    {<<MkFeature(LinkType, "U", TRUE)>>,
     <<MkFeature(MentionType, "", FALSE), MkFeature(LinkType, "V", TRUE)>>,
     <<MkFeature(MentionType, "", FALSE)>>,
     <<MkFeature(LinkType, "", FALSE)>>}

FacetInputs ==
    {MkFacet(s, Absent, e, Absent, f) : s \in -1..MaxOffset, e \in 0..MaxOffset,
                                        f \in FacetFeatures}
    \cup {MkFacet(Absent, s, Absent, e, f) : s \in -1..MaxOffset, e \in 0..MaxOffset,
                                             f \in FacetFeatures}

InitFacets ==
    /\ pc = "facets_call"
    /\ arg \in [text : FacetTexts \cup {<<>>}, facets : SeqsUpTo(FacetInputs, MaxFacets)]
    /\ ret = <<>>
    /\ FetchIdle /\ ExportIdle /\ IoIdle

CallFacets ==
    /\ pc = "facets_call"
    /\ ret' = _apply_link_facets(arg.text, arg.facets)
    /\ pc' = "facets_return"
    /\ UNCHANGED <<arg, fetchData, ex, ioData>>

NextFacets == CallFacets

SpecFacets == InitFacets /\ [][NextFacets]_vars

\* The span a facet states, in whichever spelling its index is keyed.
SpanStart(facet) == IF facet.byteStart # Absent THEN facet.byteStart ELSE facet.byte_start
SpanEnd(facet) == IF facet.byteEnd # Absent THEN facet.byteEnd ELSE facet.byte_end

IsLinkFacet(facet) ==
    \E i \in 1..Len(facet.features) :
        facet.features[i].type = LinkType /\ facet.features[i].isStr

\* The URI of a link facet: that of its first link feature.
LinkUriOf(facet) ==
    LET links == SelectSeq(facet.features, LAMBDA f : f.type = LinkType /\ f.isStr)
    IN links[1].uri

\* The link facets of the call whose span lies in the text.
InRangeLinks(text, facets) ==
    {i \in 1..Len(facets) :
        /\ IsLinkFacet(facets[i])
        /\ 0 <= SpanStart(facets[i])
        /\ SpanStart(facets[i]) < SpanEnd(facets[i])
        /\ SpanEnd(facets[i]) <= Len(Utf8Encode(text))}

NonOverlapping(facets, S) ==
    \A i, j \in S :
        i # j => \/ SpanEnd(facets[i]) <= SpanStart(facets[j])
                 \/ SpanEnd(facets[j]) <= SpanStart(facets[i])

\* The bytes the claim expects from offset pos on: [linkN](uri) for the span
\* that starts at pos, N its rank by start offset, and the text's own byte
\* elsewhere.
RECURSIVE ExpectedBytes(_, _, _, _)
ExpectedBytes(bytes, facets, S, pos) ==
    IF pos >= Len(bytes) THEN <<>>
    ELSE IF \E i \in S : SpanStart(facets[i]) = pos
         THEN LET i == CHOOSE i \in S : SpanStart(facets[i]) = pos
                  rank == 1 + Cardinality({j \in S : SpanStart(facets[j]) < pos})
              IN <<"[", "link", ToString(rank), "]", "(", LinkUriOf(facets[i]), ")">>
                     \o ExpectedBytes(bytes, facets, S, SpanEnd(facets[i]))
         ELSE <<bytes[pos + 1]>> \o ExpectedBytes(bytes, facets, S, pos + 1)

\* C4: for non-overlapping link facets with 0 <= start < end <= byte length,
\* the output of _apply_link_facets replaces each span with [linkN](uri), N
\* the 1-based rank of the span by ascending start offset, and leaves all
\* other bytes unchanged; facets out of range or inverted are ignored.
C4_LinkFacetsRewritten ==
    pc = "facets_return" =>
        LET S == InRangeLinks(arg.text, arg.facets)
        IN NonOverlapping(arg.facets, S)
               => ret = Utf8Decode(ExpectedBytes(Utf8Encode(arg.text), arg.facets, S, 0))

----------------------------------------------------------------------------
(* fetch_feed_posts (unhook.feed)                                          *)

\* Time is counted in half days; a date is a day number.
\* datetime.combine(reference_date, datetime.min.time(), tzinfo=UTC)
Midnight(day) == 2 * day

NoDays == -1        \* since_days=None
NoCutoff == -1      \* cutoff = None
NoCursor == ""      \* response.cursor None or ""
NoRequest == [limit |-> 0, cursor |-> NoCursor, method |-> "none"]
NoResponse == [feed |-> <<>>, cursor |-> NoCursor]

\* reference_datetime - timedelta(days=since_days), None without since_days
Cutoff(since_days, current_date) ==
    IF since_days = NoDays THEN NoCutoff
    ELSE Midnight(current_date) - 2 * since_days

MAX_BATCH == 100

\* A batch size that forgets the per-request maximum.
BatchSizeUncapped(limit, collected) == limit - collected

\* min(100, limit - len(all_posts))
BatchSize(limit, collected) ==
    IF limit - collected < MAX_BATCH THEN limit - collected ELSE MAX_BATCH

\* A date test that also skips the post created exactly at the cutoff.
IsOldInclusive(post, cut) ==
    cut # NoCutoff /\ post.created_at # NoTime /\ post.created_at <= cut

\* created_at < cutoff, for an item that carries created_at, with filtering on
IsOld(post, cut) ==
    cut # NoCutoff /\ post.created_at # NoTime /\ post.created_at < cut

\* The `for item in response.feed` loop (lines 230-248), for the state at its
\* start (posts collected, limit, cutoff; len(posts) < limit).  The loop
\* appends the items that are not old, in page order, and breaks after the
\* append that fills the limit; it skips the old items it meets before that.
\* `stop` is the position of the last item the loop looks at.
PageLoop(feed, posts, limit, cut) ==
    LET room == limit - Len(posts)
        recent == {i \in 1..Len(feed) : ~IsOld(feed[i], cut)}
        filling == {i \in recent : Cardinality({j \in recent : j <= i}) = room}
        stop == IF filling = {} THEN Len(feed) ELSE CHOOSE i \in filling : TRUE
        seen == SubSeq(feed, 1, stop)
    IN [all_posts |-> posts \o SelectSeq(seen, LAMBDA item : ~IsOld(item, cut)),
        dropped |-> SelectSeq(seen, LAMBDA item : IsOld(item, cut)),
        page_has_recent |-> recent # {}]

\* The feed items a server can return: created_at missing, or at half day
\* 1 or 2 (day 1 at 00:00, the cutoff of since_days=1 on day 2).
FetchTimes == {NoTime, 1, 2}
FetchPost(t) == MkPost(<<"u1">>, "a", NoUri, <<"a">>, t, <<>>, FALSE, "")

MaxLimit == 3
MaxOver == 1
\* The server's feed ends: it hands out this many items in short pages, cut
\* into pages in any way, whatever the size the request asks for.
MaxFeedItems == 4

\* A page of MAX_BATCH recent posts, as a server with a long feed answers a
\* request for MAX_BATCH items.
FullPage == [i \in 1..MAX_BATCH |-> FetchPost(2)]

ShortPages(n) == SeqsUpTo({FetchPost(t) : t \in FetchTimes}, n) \ {<<>>}
ServerCursors == {NoCursor, "c1", "c2"}

FetchLimits == 0..MaxLimit \cup {MAX_BATCH + k : k \in 0..MaxOver}

InitFetch ==
    /\ pc = "fetch_start"
    /\ env \in [handle : {"", "me"}, password : {"", "pw"}]
    /\ call \in [limit : FetchLimits, since_days : {NoDays, 0, 1},
                 current_date : {2}, feed : {"timeline", "author", "other"}]
    /\ cutoff = NoCutoff
    /\ logged_in = FALSE
    /\ all_posts = <<>>
    /\ cursor = NoCursor
    /\ request = NoRequest
    /\ dropped = <<>>
    /\ calls = 0 /\ served = 0
    /\ response = NoResponse
    /\ PureIdle /\ ExportIdle /\ IoIdle

\* Line 191: `not handle or not password` is false; a variable that is not
\* set and one that is set to "" are both "".
HasCredentials(e) == e.handle # "" /\ e.password # ""

AnyFeed(feed) == TRUE

\* Line 207: feed in {"author", "timeline"}
ValidFeed(feed) == feed \in {"author", "timeline"}

\* Lines 186-194: the credentials check.
FetchRaiseCredentials ==
    /\ pc = "fetch_start"
    /\ ~HasCredentials(env)
    /\ pc' = "fetch_raised"
    /\ UNCHANGED <<env, call, cutoff, logged_in, all_posts, cursor, request, dropped, calls, served, response, pureData, ex, ioData>>

\* Lines 196-208: the cutoff, then the check of `feed`.
FetchRaiseFeed ==
    /\ pc = "fetch_start"
    /\ HasCredentials(env)
    /\ ~ValidFeed(call.feed)
    /\ cutoff' = Cutoff(call.since_days, call.current_date)
    /\ pc' = "fetch_raised"
    /\ UNCHANGED <<env, call, logged_in, all_posts, cursor, request, dropped, calls, served, response, pureData, ex, ioData>>

\* Lines 196-215: the cutoff, the login, the empty result list.
FetchLogin ==
    /\ pc = "fetch_start"
    /\ HasCredentials(env)
    /\ ValidFeed(call.feed)
    /\ cutoff' = Cutoff(call.since_days, call.current_date)
    /\ logged_in' = TRUE
    /\ all_posts' = <<>>
    /\ cursor' = NoCursor
    /\ pc' = "fetch_loop"
    /\ UNCHANGED <<env, call, request, dropped, calls, served, response, pureData, ex, ioData>>

LoopForever(collected, limit) == TRUE

\* Line 217: while len(all_posts) < limit
LoopContinues(collected, limit) == collected < limit

\* Lines 217-225: the loop test and the page request.
FetchRequest ==
    /\ pc = "fetch_loop"
    /\ LoopContinues(Len(all_posts), call.limit)
    /\ request' = [limit |-> BatchSize(call.limit, Len(all_posts)), cursor |-> cursor,
                   method |-> IF call.feed = "timeline" THEN "get_timeline"
                              ELSE "get_author_feed"]
    /\ calls' = calls + 1
    /\ pc' = "fetch_await"
    /\ UNCHANGED <<env, call, cutoff, logged_in, all_posts, cursor, dropped, served, response, pureData, ex, ioData>>

\* Line 217 false: return all_posts.
FetchReturn ==
    /\ pc = "fetch_loop"
    /\ ~LoopContinues(Len(all_posts), call.limit)
    /\ pc' = "fetch_done"
    /\ UNCHANGED <<env, call, cutoff, logged_in, all_posts, cursor, request, dropped, calls, served, response, pureData, ex, ioData>>

\* Lines 227-228: the server answers with an empty page.
FetchEmptyPage ==
    /\ pc = "fetch_await"
    /\ \E next_cursor \in ServerCursors :
           /\ response' = [feed |-> <<>>, cursor |-> next_cursor]
           /\ dropped' = <<>>
           /\ pc' = "fetch_done"
    /\ UNCHANGED <<env, call, cutoff, logged_in, all_posts, cursor, request, calls, served, pureData, ex, ioData>>

StopsOnlyWithoutCursor(page_has_recent, cut) == FALSE

\* Lines 250-251: cutoff is not None and not page_has_recent
StopsAfterOldPage(page_has_recent, cut) == cut # NoCutoff /\ ~page_has_recent

\* The rest of the loop body (lines 230-256) for a page of items `feed` and
\* its cursor.
HandlePage(feed, next_cursor) ==
    LET r == PageLoop(feed, all_posts, call.limit, cutoff)
    IN /\ response' = [feed |-> feed, cursor |-> next_cursor]
       /\ all_posts' = r.all_posts
       /\ dropped' = r.dropped
       /\ IF StopsAfterOldPage(r.page_has_recent, cutoff)
          THEN pc' = "fetch_done" /\ cursor' = cursor
          ELSE /\ cursor' = next_cursor
               /\ pc' = IF next_cursor = NoCursor THEN "fetch_done" ELSE "fetch_loop"

\* The server answers with a short page of items and a cursor.
FetchPage ==
    /\ pc = "fetch_await"
    /\ \E feed \in ShortPages(MaxFeedItems - served), next_cursor \in ServerCursors :
           /\ HandlePage(feed, next_cursor)
           /\ served' = served + Len(feed)
    /\ UNCHANGED <<env, call, cutoff, logged_in, request, calls, pureData, ex, ioData>>

\* The server answers a request for MAX_BATCH items with that many.
FetchFullPage ==
    /\ pc = "fetch_await"
    /\ request.limit = MAX_BATCH
    /\ \E next_cursor \in ServerCursors : HandlePage(FullPage, next_cursor)
    /\ UNCHANGED <<env, call, cutoff, logged_in, request, calls, served, pureData, ex, ioData>>

NextFetch ==
    \/ FetchRaiseCredentials
    \/ FetchRaiseFeed
    \/ FetchLogin
    \/ FetchRequest
    \/ FetchReturn
    \/ FetchEmptyPage
    \/ FetchPage
    \/ FetchFullPage

SpecFetch == InitFetch /\ [][NextFetch]_vars

\* C9: the result of fetch_feed_posts has at most `limit` posts, and every
\* page request asks for min(100, limit - number of posts collected so far)
\* items.
C9_LimitAndBatchSize ==
    /\ Len(all_posts) <= call.limit
    /\ pc = "fetch_await" =>
           LET remaining == call.limit - Len(all_posts)
           IN request.limit = IF remaining < 100 THEN remaining ELSE 100

\* A fetch of more than 100 posts: the first request was cut to 100 and
\* answered in full, the second asked for the one post that remained.
C9_Witness ==
    /\ pc = "fetch_done"
    /\ call.limit = 101 /\ Len(all_posts) = 101
    /\ calls = 2 /\ request.limit = 1

\* C10: with since_days = N the result holds no post whose created_at is
\* earlier than UTC midnight of the reference date minus N days, and the date
\* filter skips no post created at or after that cutoff; with since_days =
\* None it skips none.
C10_DateCutoff ==
    pc \in {"fetch_loop", "fetch_await", "fetch_done"} =>
        IF call.since_days = NoDays THEN dropped = <<>>
        ELSE LET midnight == 2 * call.current_date
                 limitTime == midnight - 2 * call.since_days
             IN /\ \A i \in 1..Len(all_posts) :
                       all_posts[i].created_at = NoTime
                           \/ all_posts[i].created_at >= limitTime
                /\ \A i \in 1..Len(dropped) :
                       /\ dropped[i].created_at # NoTime
                       /\ dropped[i].created_at < limitTime

\* A page with a post created exactly at the cutoff, which is kept, after a
\* post created before it, which is skipped.
C10_Witness ==
    /\ pc = "fetch_done"
    /\ call.since_days = 1
    /\ Len(dropped) = 1 /\ dropped[1].created_at = 1
    /\ Len(all_posts) = 1 /\ all_posts[1].created_at = 2

\* C11: fetch_feed_posts raises ValueError before any client call (no login,
\* no page request) when BLUESKY_HANDLE or BLUESKY_APP_PASSWORD is missing or
\* empty, and also when `feed` is neither "author" nor "timeline".
C11_RaisesBeforeClientCall ==
    (env.handle = "" \/ env.password = "" \/ call.feed \notin {"author", "timeline"}) =>
        /\ pc \in {"fetch_start", "fetch_raised"}
        /\ ~logged_in
        /\ calls = 0
        /\ request = NoRequest

\* The credentials are set, the feed is "other", and the call has raised.
C11_Witness ==
    /\ pc = "fetch_raised"
    /\ env.handle = "me" /\ env.password = "pw"
    /\ call.feed = "other"
    /\ ~logged_in /\ calls = 0

----------------------------------------------------------------------------
(* find_self_threads                                                       *)

\* _get_author_identifier: author.get("did") or author.get("handle").
_get_author_identifier(post) == post.author

\* _extract_reply_parent_uri: record.reply.parent.uri, NoUri when any part
\* of the path is missing.
_extract_reply_parent_uri(post) == post.parent

\* A dict is a function on its keys; d[key] = value adds or replaces a key.
EmptyDict == <<>>
DictSet(d, key, value) == [k \in DOMAIN d \cup {key} |-> IF k = key THEN value ELSE d[k]]

\* Lines 46-50: posts_by_uri, a later post replaces an earlier one of its URI.
RECURSIVE PostsByUriLoop(_, _, _)
PostsByUriLoop(posts, i, posts_by_uri) ==
    IF i > Len(posts) THEN posts_by_uri
    ELSE IF posts[i].uri # NoUri
         THEN PostsByUriLoop(posts, i + 1, DictSet(posts_by_uri, posts[i].uri, posts[i]))
         ELSE PostsByUriLoop(posts, i + 1, posts_by_uri)

SameAuthorAlways(parent_post, post) == TRUE

\* Line 67: the authors of a reply and of its parent match.
SameAuthor(parent_post, post) ==
    _get_author_identifier(parent_post) = _get_author_identifier(post)

\* Lines 53-70: parent_map, an entry only when the parent exists locally and
\* the authors match.
RECURSIVE ParentMapLoop(_, _, _, _)
ParentMapLoop(posts, i, posts_by_uri, parent_map) ==
    IF i > Len(posts) THEN parent_map
    ELSE LET post == posts[i]
             parent_uri == _extract_reply_parent_uri(post)
         IN IF /\ post.uri # NoUri
               /\ parent_uri # NoUri
               /\ parent_uri \in DOMAIN posts_by_uri
               /\ SameAuthor(posts_by_uri[parent_uri], post)
            THEN ParentMapLoop(posts, i + 1, posts_by_uri,
                               DictSet(parent_map, post.uri, parent_uri))
            ELSE ParentMapLoop(posts, i + 1, posts_by_uri, parent_map)

\* Lines 73-75: the URIs that are a child and no parent.  The code iterates
\* over a set of strings, whose order changes from run to run.
LeafSet(parent_map) ==
    DOMAIN parent_map \ {parent_map[u] : u \in DOMAIN parent_map}
LeafOrders(S) ==
    {o \in [1..Cardinality(S) -> S] : \A i, j \in 1..Cardinality(S) : o[i] = o[j] => i = j}

\* Lines 81-87: the while loop, from the leaf up; `ends` tells whether it
\* comes to an end.  A walk that appends more posts than `fuel`, the number of
\* URIs, is inside a cycle of parent_map and appends for ever.
RECURSIVE WalkChain(_, _, _, _, _)
WalkChain(posts_by_uri, parent_map, current_uri, chain, fuel) ==
    IF current_uri = NoUri \/ current_uri \notin DOMAIN posts_by_uri
    THEN [ends |-> TRUE, chain |-> chain]
    ELSE IF fuel = 0 THEN [ends |-> FALSE, chain |-> chain]
    ELSE WalkChain(posts_by_uri, parent_map,
                   IF current_uri \in DOMAIN parent_map THEN parent_map[current_uri] ELSE NoUri,
                   Append(chain, posts_by_uri[current_uri]), fuel - 1)

Reverse(s) == [i \in 1..Len(s) |-> s[Len(s) + 1 - i]]

\* Lines 77-91: the loop over the leaves, in the order `leaves`; `ends` is
\* false when the walk from one of them does not end, and `threads` is then
\* what was collected before it.
RECURSIVE LeavesLoop(_, _, _, _, _)
LeavesLoop(posts_by_uri, parent_map, leaves, i, threads) ==
    IF i > Len(leaves) THEN [ends |-> TRUE, threads |-> threads]
    ELSE LET walk == WalkChain(posts_by_uri, parent_map, leaves[i], <<>>,
                               Cardinality(DOMAIN posts_by_uri))
         IN IF ~walk.ends THEN [ends |-> FALSE, threads |-> threads]
            ELSE IF Len(walk.chain) > 1
                 THEN LeavesLoop(posts_by_uri, parent_map, leaves, i + 1,
                                 Append(threads, Reverse(walk.chain)))
                 ELSE LeavesLoop(posts_by_uri, parent_map, leaves, i + 1, threads)

PostsByUri(posts) == PostsByUriLoop(posts, 1, EmptyDict)
ParentMap(posts) == ParentMapLoop(posts, 1, PostsByUri(posts), EmptyDict)

\* find_self_threads(posts) when the leaves come in the order `leaves`.
find_self_threads(posts, leaves) ==
    LeavesLoop(PostsByUri(posts), ParentMap(posts), leaves, 1, <<>>)

\* The orders in which a run can meet the leaves.
LeavesOf(posts) == LeafOrders(LeafSet(ParentMap(posts)))

\* The inputs: posts with one of three URIs or none, one of two authors, and
\* no parent or a parent URI, which may or may not be a URI of the list.  A
\* URI names one record of one author's repository: every copy of a post in
\* the list has the same author and the same parent.
ThreadUris == {<<"u1">>, <<"u2">>, <<"u3">>}
ThreadPosts ==
    {MkPost(u, a, p, <<"a">>, NoTime, <<>>, FALSE, "") :
        u \in ThreadUris \cup {NoUri}, a \in {"a", "b"}, p \in {NoUri, <<"u1">>, <<"u2">>}}
MaxThreadPosts == 3
CopiesAgree(posts) ==
    \A i, j \in 1..Len(posts) :
        posts[i].uri = posts[j].uri /\ posts[i].uri # NoUri => posts[i] = posts[j]

InitThreads ==
    /\ pc = "call"
    /\ arg \in {posts \in SeqsUpTo(ThreadPosts, MaxThreadPosts) : CopiesAgree(posts)}
    /\ ret = <<>>
    /\ FetchIdle /\ ExportIdle /\ IoIdle

\* find_self_threads(arg) returns.
CallThreads ==
    /\ pc = "call"
    /\ \E leaves \in LeavesOf(arg) :
           /\ find_self_threads(arg, leaves).ends
           /\ ret' = find_self_threads(arg, leaves).threads
    /\ pc' = "done"
    /\ UNCHANGED <<arg, fetchData, ex, ioData>>

\* find_self_threads(arg) walks into a cycle of parent_map: the while loop
\* of lines 81-87 runs for ever, and nothing is returned.
SpinThreads ==
    /\ pc \in {"call", "walk"}
    /\ \E leaves \in LeavesOf(arg) : ~find_self_threads(arg, leaves).ends
    /\ pc' = "walk"
    /\ UNCHANGED <<arg, ret, fetchData, ex, ioData>>

NextThreads ==
    \/ CallThreads
    \/ SpinThreads

SpecThreads == InitThreads /\ [][NextThreads]_vars

----------------------------------------------------------------------------
(* export_recent_posts_to_epub                                             *)

\* _is_repost: the item's reason (or record) has the repost type.
_is_repost(post) == post.repost

WithReplies(posts) == SelectSeq(posts, LAMBDA post : ~_is_repost(post))

\* _filter_top_level_posts: neither a repost nor a reply (record.reply set).
_filter_top_level_posts(posts) ==
    SelectSeq(posts, LAMBDA post : ~_is_repost(post) /\ post.parent = NoUri)

\* _get_reposter_handle: reason.by.handle or reason.by.did.
_get_reposter_handle(post) == post.by

\* _build_repost_info: URI -> reposter, a later repost replaces an earlier one.
RECURSIVE BuildRepostInfoLoop(_, _, _)
BuildRepostInfoLoop(reposts, i, info) ==
    IF i > Len(reposts) THEN info
    ELSE IF reposts[i].uri # NoUri /\ _get_reposter_handle(reposts[i]) # ""
         THEN BuildRepostInfoLoop(reposts, i + 1,
                  DictSet(info, reposts[i].uri, _get_reposter_handle(reposts[i])))
         ELSE BuildRepostInfoLoop(reposts, i + 1, info)
_build_repost_info(reposts) == BuildRepostInfoLoop(reposts, 1, EmptyDict)

\* datetime.now(UTC) at the time of the mapping: later than every post.
Now == 3
Untitled == <<"Untitled">>
TitleLen == 60

\* body.split("\n", 1)[0]
FirstLine(body) ==
    LET breaks == {i \in 1..Len(body) : body[i] = "\n"}
    IN IF breaks = {} THEN body
       ELSE SubSeq(body, 1, (CHOOSE i \in breaks : \A j \in breaks : i <= j) - 1)

\* _extract_image_urls: fullsize, else thumb, of every image that has one.
RECURSIVE _extract_image_urls(_, _)
_extract_image_urls(images, i) ==
    IF i > Len(images) THEN <<>>
    ELSE (IF ImageUrl(images[i]) # "" THEN <<ImageUrl(images[i])>> ELSE <<>>)
         \o _extract_image_urls(images, i + 1)

\* One iteration of map_posts_to_content, for a post without facets and
\* without a quoted post.  `src` records the URI of the post the item is
\* made from.
MapPost(raw) ==
    LET text == Strip(raw.text)
        first == FirstLine(text)
        title == IF text = <<>> THEN Untitled
                 ELSE IF Len(first) > TitleLen THEN SubSeq(first, 1, TitleLen) ELSE first
    IN MkContent(IF title = <<>> THEN Untitled ELSE title,
                 raw.author,
                 IF raw.created_at # NoTime THEN raw.created_at ELSE Now,
                 text, _extract_image_urls(raw.images, 1), "", raw.uri)

map_posts_to_content(posts) == [i \in 1..Len(posts) |-> MapPost(posts[i])]

\* uri.replace("#thread", "") if uri.endswith("#thread") else uri
BaseUri(uri) ==
    IF uri # <<>> /\ uri[Len(uri)] = "#thread"
    THEN SelectSeq(uri, LAMBDA tok : tok # "#thread")
    ELSE uri

ReposterByUriOnly(repost_info, uri) ==
    IF uri \in DOMAIN repost_info THEN repost_info[uri] ELSE ""

\* repost_info.get(uri) or repost_info.get(base_uri)
Reposter(repost_info, uri) ==
    IF uri \in DOMAIN repost_info THEN repost_info[uri]
    ELSE IF BaseUri(uri) \in DOMAIN repost_info THEN repost_info[BaseUri(uri)]
    ELSE ""

\* _map_reposts_to_content: map_posts_to_content, then reposted_by is set on
\* the items whose post has a reposter in repost_info.
_map_reposts_to_content(posts, repost_info) ==
    [idx \in 1..Len(posts) |->
        LET content == MapPost(posts[idx])
            reposter == Reposter(repost_info, posts[idx].uri)
        IN IF reposter # "" THEN [content EXCEPT !.reposted_by = reposter] ELSE content]

\* Put `item` into a list that is in descending order of `published`, after
\* the items of its timestamp: sorted(..., reverse=True) is stable.
RECURSIVE InsertByPublished(_, _)
InsertByPublished(sorted, item) ==
    IF sorted = <<>> THEN <<item>>
    ELSE IF Head(sorted).published < item.published THEN <<item>> \o sorted
    ELSE <<Head(sorted)>> \o InsertByPublished(Tail(sorted), item)

RECURSIVE SortLoop(_, _, _)
SortLoop(items, i, sorted) ==
    IF i > Len(items) THEN sorted
    ELSE SortLoop(items, i + 1, InsertByPublished(sorted, items[i]))

Unsorted(content_posts) == content_posts

\* sorted(content_posts, key=lambda post: post.published, reverse=True)
SortedByPublished(content_posts) == SortLoop(content_posts, 1, <<>>)

NoThreadRoots(threads) == {}

\* thread[0].post.uri of every thread
ThreadRoots(threads) == {threads[i][1].uri : i \in 1..Len(threads)}

\* The fetched feed (fetch_feed_posts is replaced by a feed, as in the tests).
\* Three records u1, u2, u3 of different text lengths; u1 is a top-level post,
\* u2 may reply to u1, u3 to u1 or to u2; u3 may be by another author.  Every
\* record can come as a native item and as a repost by "r".
U1 == <<"u1">>
U2 == <<"u2">>
U3 == <<"u3">>
ExportWorlds ==
    [parent2 : {NoUri, U1}, parent3 : {NoUri, U1, U2}, author3 : {"a", "b"},
     times : {<<2, 1, NoTime>>, <<1, 2, 2>>}]
ExportPost(w, u, isRepost) ==
    IF u = U1 THEN MkPost(U1, "a", NoUri, <<"a">>, w.times[1], <<Img1>>,
                          isRepost, IF isRepost THEN "r" ELSE "")
    ELSE IF u = U2 THEN MkPost(U2, "a", w.parent2, <<"b", "b">>, w.times[2], <<>>,
                               isRepost, IF isRepost THEN "r" ELSE "")
    ELSE MkPost(U3, w.author3, w.parent3, <<"c", "c", "c">>, w.times[3], <<>>,
                isRepost, IF isRepost THEN "r" ELSE "")
ExportItems(w) == {ExportPost(w, u, rp) : u \in {U1, U2, U3}, rp \in BOOLEAN}
MaxFeed == 3
MinLengths == {0, 3, 6}

\* The arguments of export_recent_posts_to_epub, the feed that
\* fetch_feed_posts returns to it, and its local variables before they are
\* assigned; `built` is the list that builder.build receives.
ExportLocals(feed, min_length, repost_min_length) ==
    [all_posts |-> feed, min_length |-> min_length,
     repost_min_length |-> repost_min_length,
     native_threads |-> <<>>, repost_threads |-> <<>>,
     merged_native |-> <<>>, all_repost_posts |-> <<>>,
     repost_info |-> EmptyDict, filter_input |-> <<>>,
     native_mapped |-> <<>>, repost_mapped |-> <<>>,
     native_content |-> <<>>, repost_content |-> <<>>,
     content_posts |-> <<>>, built |-> <<>>]

InitExport ==
    /\ pc = "ex_start"
    /\ \E w \in ExportWorlds :
       \E feed \in SeqsUpTo(ExportItems(w), MaxFeed) :
       \E min_length \in MinLengths, repost_min_length \in MinLengths :
           ex = ExportLocals(feed, min_length, repost_min_length)
    /\ PureIdle /\ FetchIdle /\ IoIdle

\* Lines 100-137: the feed is split into native posts and reposts, the self
\* threads of each class are consolidated, thread roots are taken out of the
\* standalone posts, and the reposters are recorded.
ExportCollect ==
    /\ pc = "ex_start"
    /\ LET native_posts == SelectSeq(ex.all_posts, LAMBDA p : ~_is_repost(p))
           reposts == SelectSeq(ex.all_posts, LAMBDA p : _is_repost(p))
           top_level_native == _filter_top_level_posts(native_posts)
       IN \E native_leaves \in LeavesOf(native_posts), repost_leaves \in LeavesOf(reposts) :
           LET native_found == find_self_threads(native_posts, native_leaves)
               repost_found == find_self_threads(reposts, repost_leaves)
               native_threads == native_found.threads
               repost_threads == repost_found.threads
               merged_native ==
                   SelectSeq(top_level_native,
                             LAMBDA post : post.uri \notin ThreadRoots(native_threads))
                   \o consolidate_threads_to_posts(native_threads)
               standalone_reposts ==
                   SelectSeq(reposts,
                             LAMBDA post : /\ post.uri \notin ThreadRoots(repost_threads)
                                           /\ post.parent = NoUri)
           IN /\ native_found.ends /\ repost_found.ends
              /\ ex' = [ex EXCEPT
                        !.native_threads = native_threads,
                        !.repost_threads = repost_threads,
                        !.merged_native = merged_native,
                        !.all_repost_posts =
                            standalone_reposts \o consolidate_threads_to_posts(repost_threads),
                        !.repost_info = _build_repost_info(reposts)]
    /\ pc' = "ex_content"
    /\ UNCHANGED <<pureData, fetchData, ioData>>

SharedThreshold(min_length, repost_min_length) == min_length

\* Line 148: the reposts are filtered with min_length=repost_min_length
RepostThreshold(min_length, repost_min_length) == repost_min_length

\* Lines 140-153: each class is deduplicated, mapped to content and filtered
\* by its length threshold; the two lists are joined and sorted.
ExportContent ==
    /\ pc = "ex_content"
    /\ LET native_mapped == map_posts_to_content(dedupe_posts(ex.merged_native))
           repost_mapped == _map_reposts_to_content(dedupe_posts(ex.all_repost_posts),
                                                    ex.repost_info)
           native_content == _filter_by_length(native_mapped, ex.min_length)
           repost_content ==
               _filter_by_length(repost_mapped,
                                 RepostThreshold(ex.min_length, ex.repost_min_length))
       IN ex' = [ex EXCEPT
                 !.filter_input = native_mapped \o repost_mapped,
                 !.native_mapped = native_mapped,
                 !.repost_mapped = repost_mapped,
                 !.native_content = native_content,
                 !.repost_content = repost_content,
                 !.content_posts = SortedByPublished(native_content \o repost_content)]
    /\ pc' = "ex_build"
    /\ UNCHANGED <<pureData, fetchData, ioData>>

\* Lines 155-165: the images are downloaded and builder.build(content_posts,
\* images, output_path) writes the one chapter of the EPUB.
ExportBuild ==
    /\ pc = "ex_build"
    /\ ex' = [ex EXCEPT !.built = ex.content_posts]
    /\ pc' = "ex_done"
    /\ UNCHANGED <<pureData, fetchData, ioData>>

NextExport ==
    \/ ExportCollect
    \/ ExportContent
    \/ ExportBuild

SpecExport == InitExport /\ [][NextExport]_vars

\* Feeds in which a record is reposted by "r", by "s", or without a reposter
\* in the reason, next to its native item.
RepostWorlds ==
    [parent2 : {NoUri, U1}, parent3 : {NoUri, U1, U2}, author3 : {"a"},
     times : {<<1, 2, 2>>}]
RepostItems(w) ==
    {ExportPost(w, u, FALSE) : u \in {U1, U2, U3}}
        \cup {[ExportPost(w, u, TRUE) EXCEPT !.by = by] :
                 u \in {U1, U2, U3}, by \in {"", "r", "s"}}

InitReposts ==
    /\ pc = "ex_start"
    /\ \E w \in RepostWorlds :
       \E feed \in SeqsUpTo(RepostItems(w), MaxFeed) :
       \E min_length \in {0}, repost_min_length \in {0, 3} :
           ex = ExportLocals(feed, min_length, repost_min_length)
    /\ PureIdle /\ FetchIdle /\ IoIdle

SpecReposts == InitReposts /\ [][NextExport]_vars

\* The number of places at which `sub` occurs in `s`.
Occurrences(sub, s) ==
    Cardinality({i \in 1..(Len(s) - Len(sub) + 1) : SubSeq(s, i, i + Len(sub) - 1) = sub})

\* The feed is a top-level native post and a native reply to it by the same
\* author, in either order; root and reply are their positions.
RootAndReply(feed, root, reply) ==
    /\ Len(feed) = 2 /\ {root, reply} = {1, 2}
    /\ ~feed[root].repost /\ ~feed[reply].repost
    /\ feed[root].parent = NoUri
    /\ feed[root].uri # NoUri
    /\ feed[reply].parent = feed[root].uri
    /\ feed[reply].author = feed[root].author

\* The EPUB's chapter has exactly one item, and its body holds the text of
\* the root and the text of the reply once each.
OneMergedItem(feed, root, reply) ==
    /\ Len(ex.built) = 1
    /\ Occurrences(feed[root].text, ex.built[1].body) = 1
    /\ Occurrences(feed[reply].text, ex.built[1].body) = 1

\* C6, as stated: for a feed of a top-level post and a reply to it by the same
\* author, the EPUB has exactly one content item, whose body contains both
\* posts' texts once each, and neither post is a separate item.
C6_Original ==
    pc = "ex_done" =>
        \A root, reply \in 1..2 :
            RootAndReply(ex.all_posts, root, reply) => OneMergedItem(ex.all_posts, root, reply)

\* C6, amended: the same, provided the merged body (the two texts and the
\* two-character separator between them) has at least min_length characters;
\* a shorter thread is removed by the length filter and the EPUB has no item.
C6_MergedThreadIfLongEnough ==
    pc = "ex_done" =>
        \A root, reply \in 1..2 :
            RootAndReply(ex.all_posts, root, reply) =>
                IF Len(ex.all_posts[root].text) + Len(ThreadSep) + Len(ex.all_posts[reply].text)
                       >= ex.min_length
                THEN OneMergedItem(ex.all_posts, root, reply)
                ELSE ex.built = <<>>

\* The reply comes first in the feed, the thread is long enough, and the EPUB
\* has the one merged item.
C6_Witness ==
    /\ pc = "ex_done"
    /\ RootAndReply(ex.all_posts, 2, 1)
    /\ ex.min_length = 3
    /\ Len(ex.built) = 1
    /\ ex.built[1].body = <<"a", "\n", "\n", "b", "b">>

\* C7: the content items handed to the EPUB builder derive from pairwise
\* distinct post URIs (or synthetic thread URIs), native posts and reposts
\* taken together.
C7_DistinctUris ==
    pc = "ex_done" =>
        \A i, j \in 1..Len(ex.built) : ex.built[i].src = ex.built[j].src => i = j

\* C8: the content items handed to the EPUB builder are in descending order
\* of their published timestamp.
C8_NewestFirst ==
    pc = "ex_done" =>
        \A i, j \in 1..Len(ex.built) : i < j => ex.built[i].published >= ex.built[j].published

\* A native post and a repost that the feed has oldest first are handed to
\* the builder newest first.
C8_Witness ==
    /\ pc = "ex_done"
    /\ Len(ex.all_posts) = 2 /\ Len(ex.built) = 2
    /\ ~ex.all_posts[1].repost /\ ex.all_posts[2].repost
    /\ ex.all_posts[1].created_at = 1 /\ ex.all_posts[2].created_at = 2
    /\ ex.built[1].src = ex.all_posts[2].uri
    /\ ex.built[2].src = ex.all_posts[1].uri

\* The reposters that the reasons of the feed's reposts of `uri` name.
RepostersOf(feed, uri) ==
    {feed[i].by : i \in {j \in 1..Len(feed) : /\ feed[j].repost
                                              /\ feed[j].uri = uri
                                              /\ feed[j].by # ""}}

----------------------------------------------------------------------------
(* The export-epub command (cmd.py)                                        *)

\* The parameters of export_recent_posts_to_epub (epub_service.py:88-94) and
\* those among them that have no default.
ExportParams == {"output_dir", "limit", "file_prefix", "min_length", "repost_min_length"}
ExportRequired == {"output_dir"}

\* The keyword arguments of the call in export_epub (cmd.py:151-160).
CliKeywords ==
    {"output_dir", "limit", "file_prefix", "min_length", "repost_min_length",
     "include_twitter", "twitter_config_path", "twitter_limit", "twitter_min_length"}

\* A Python call binds when every keyword names a parameter and every
\* parameter without a default gets a value; otherwise it raises TypeError
\* before the body of the function runs.
Binds(keywords, params, required) == keywords \subseteq params /\ required \subseteq keywords

NoExit == -1
MaxCliFeed == 2
CliWorld == [parent2 |-> U1, parent3 |-> NoUri, author3 |-> "b", times |-> <<1, 2, 2>>]

\* The command is invoked with its options; fetch_feed_posts is replaced by a
\* feed, as in test_fetch_writes_actual_file.
InitCli ==
    /\ pc = "cli_start"
    /\ \E feed \in SeqsUpTo(ExportItems(CliWorld), MaxCliFeed) :
       \E min_length \in MinLengths, repost_min_length \in MinLengths :
       \E file_prefix \in {"posts", "integration"}, twitter \in BOOLEAN :
           cli = [feed |-> feed, min_length |-> min_length,
                  repost_min_length |-> repost_min_length,
                  file_prefix |-> file_prefix, twitter |-> twitter,
                  exit_code |-> NoExit, stdout |-> <<>>, files |-> {}]
    /\ ex = <<>>
    /\ gmail = <<>> /\ net = <<>>
    /\ PureIdle /\ FetchIdle

\* cmd.py:150-162: export_epub calls export_recent_posts_to_epub with its
\* keyword arguments.  When the call binds the export starts; when it does
\* not, TypeError is raised and nothing of the export has run.
CliCallExport ==
    /\ pc = "cli_start"
    /\ IF Binds(CliKeywords, ExportParams, ExportRequired)
       THEN /\ pc' = "ex_start"
            /\ ex' = ExportLocals(cli.feed, cli.min_length, cli.repost_min_length)
       ELSE /\ pc' = "cli_raised"
            /\ ex' = ex
    /\ UNCHANGED <<pureData, fetchData, ioData>>

\* The exception leaves export_epub: the command ends with exit code 1,
\* prints no "Saved EPUB" line and has written no file.
CliExitOnError ==
    /\ pc = "cli_raised"
    /\ cli' = [cli EXCEPT !.exit_code = 1]
    /\ pc' = "cli_exit"
    /\ UNCHANGED <<pureData, fetchData, ex, gmail, net>>

\* The export's own steps are those of SpecExport; no call from the command
\* gets as far as its first line.
NextCli ==
    \/ CliCallExport
    \/ CliExitOnError

SpecCli == InitCli /\ [][NextCli]_vars

\* Some native top-level post of the feed is long enough for the filter.
SomePostPasses ==
    \E i \in 1..Len(cli.feed) :
        /\ ~cli.feed[i].repost
        /\ cli.feed[i].parent = NoUri
        /\ Len(cli.feed[i].text) >= cli.min_length

\* C12: the export-epub command, when the fetch succeeds and returns posts
\* that pass the length filter, exits with code zero and leaves exactly one
\* EPUB named <file-prefix>-<timestamp>.epub in the output directory.
C12_CliExportSucceeds ==
    (pc = "cli_exit" /\ SomePostPasses) =>
        /\ cli.exit_code = 0
        /\ Cardinality(cli.files) = 1
        /\ \A f \in cli.files : f.prefix = cli.file_prefix

----------------------------------------------------------------------------
(* _is_repost and get_type_field                                           *)

\* Type strings are sequences of tokens, so that "x in reason_type" is the
\* occurrence of one sequence in another; "" is the empty sequence.
BSKY_REPOST_TYPE == <<"app.bsky.feed.repost">>
BSKY_REASON_REPOST == <<"reasonRepost">>
\* The value of a key that the dict does not have, or that holds None.
NoneValue == <<"None">>

\* A value that is a dict with the keys $type and py_type, or no dict at all
\* (the key is missing, or it holds None or a string).
MkTyped(kind, dollar_type, py_type) ==
    [kind |-> kind, dollar_type |-> dollar_type, py_type |-> py_type]
NotADict(kind) == MkTyped(kind, NoneValue, NoneValue)

\* a or b, for strings and None
StrOr(a, b) == IF a # NoneValue /\ a # <<>> THEN a ELSE b

\* get_type_field (constants.py:17-31)
get_type_field(obj) ==
    IF obj.kind # "dict" THEN <<>>
    ELSE StrOr(obj.dollar_type, StrOr(obj.py_type, <<>>))

TypeIs(sub, str) == sub = str

\* sub in str
Contains(sub, str) == Occurrences(sub, str) > 0

\* _is_repost (epub_service.py:188-204) on a feed item with the given reason
\* and record.
IsRepost(item) ==
    LET reason == IF item.reason.kind # "dict" THEN MkTyped("dict", NoneValue, NoneValue)
                  ELSE item.reason
        reason_type == get_type_field(reason)
    IN IF Contains(BSKY_REASON_REPOST, reason_type) THEN TRUE
       ELSE IF item.record.kind # "dict" THEN FALSE
       ELSE get_type_field(item.record) = BSKY_REPOST_TYPE

\* The values of a type key: missing, empty, the two repost markers (alone
\* and inside a longer string) and the type of a plain post.
TypeValues ==
    {NoneValue, <<>>, BSKY_REASON_REPOST, <<"app.bsky.feed.defs#">> \o BSKY_REASON_REPOST,
     BSKY_REPOST_TYPE, BSKY_REPOST_TYPE \o <<"#x">>, <<"app.bsky.feed.post">>}
TypedValues ==
    {NotADict("none"), NotADict("str")}
        \cup {MkTyped("dict", d, p) : d \in TypeValues, p \in TypeValues}

InitIsRepost ==
    /\ pc = "call"
    /\ arg \in [reason : TypedValues, record : TypedValues]
    /\ ret = <<>>
    /\ FetchIdle /\ ExportIdle /\ IoIdle

CallIsRepost ==
    /\ pc = "call"
    /\ ret' = IsRepost(arg)
    /\ pc' = "done"
    /\ UNCHANGED <<arg, fetchData, ex, ioData>>

NextIsRepost == CallIsRepost

SpecIsRepost == InitIsRepost /\ [][NextIsRepost]_vars

\* The type field as the claim reads it: $type, and py_type when $type is
\* absent or empty; "" when neither is there.
ClaimedType(obj) ==
    IF obj.dollar_type \notin {NoneValue, <<>>} THEN obj.dollar_type
    ELSE IF obj.py_type \notin {NoneValue, <<>>} THEN obj.py_type
    ELSE <<>>

\* C13: a feed item is a repost if and only if its reason is a mapping whose
\* type field contains "reasonRepost" or its record is a mapping whose type
\* field equals "app.bsky.feed.repost"; the type field is $type or, when that
\* is absent or empty, py_type; a reason or record that is no mapping never
\* makes the item a repost.
C13_IsRepostIff ==
    pc = "done" =>
        (ret = TRUE <=>
            \/ /\ arg.reason.kind = "dict"
               /\ \E i \in 1..Len(ClaimedType(arg.reason)) :
                      ClaimedType(arg.reason)[i] = "reasonRepost"
            \/ /\ arg.record.kind = "dict"
               /\ ClaimedType(arg.record) = <<"app.bsky.feed.repost">>)

\* An item whose reason has an empty $type and the repost marker inside its
\* py_type, and whose record is no dict, is a repost.
C13_Witness ==
    /\ pc = "done"
    /\ ret = TRUE
    /\ arg.reason = MkTyped("dict", <<>>, <<"app.bsky.feed.defs#", "reasonRepost">>)
    /\ arg.record.kind = "str"

----------------------------------------------------------------------------
(* download_images and EpubBuilder.build: the images of an export          *)

\* [url for post in content_posts for url in post.image_urls]
RECURSIVE AllImageUrls(_, _)
AllImageUrls(content_posts, i) ==
    IF i > Len(content_posts) THEN <<>>
    ELSE content_posts[i].image_urls \o AllImageUrls(content_posts, i + 1)

\* {u for u in urls if u}
DistinctUrls(urls) == {urls[i] : i \in 1..Len(urls)} \ {""}

BuildImagesUntilMissing(image_urls, image_bytes, i) ==
    IF \E k \in i..Len(image_urls) : image_urls[k] \notin DOMAIN image_bytes
    THEN SubSeq(image_urls, i,
                (CHOOSE k \in i..Len(image_urls) :
                    /\ image_urls[k] \notin DOMAIN image_bytes
                    /\ \A j \in i..(k - 1) : image_urls[j] \in DOMAIN image_bytes) - 1)
    ELSE SubSeq(image_urls, i, Len(image_urls))

\* epub_builder.py:116-137: the image loop of one post; an image without
\* bytes is skipped, the others become items and <img> tags of the post.
RECURSIVE BuildImages(_, _, _)
BuildImages(image_urls, image_bytes, i) ==
    IF i > Len(image_urls) THEN <<>>
    ELSE IF image_urls[i] \notin DOMAIN image_bytes
              \/ image_bytes[image_urls[i]] = "empty"
         THEN BuildImages(image_urls, image_bytes, i + 1)
         ELSE <<image_urls[i]>> \o BuildImages(image_urls, image_bytes, i + 1)

\* epub_builder.py:112-150: one section per post, with its body and images.
BuildSections(posts, image_bytes) ==
    [i \in 1..Len(posts) |->
        [body |-> posts[i].body, images |-> BuildImages(posts[i].image_urls, image_bytes, 1)]]

\* The content items of an export: up to MaxImagePosts posts with up to
\* MaxImages image URLs each; a URL can be "" and can occur more than once.
MaxImagePosts == 2
MaxImages == 2
ImageUrls == {"", "i1", "i2"}
ImagePosts ==
    {MkContent(<<"t">>, "a", 1, <<"t">>, urls, "", U1) : urls \in SeqsUpTo(ImageUrls, MaxImages)}

\* The two download loops: download_images (epub_service.py:75-85), which
\* the export calls when there is a URL, and download_external_images
\* (gmail_epub_service.py:226-250), which returns at once without a
\* non-empty URL.
Downloaders == {"download_images", "download_external_images"}

\* No request is made at all.
NothingToDownload(fn, urls) ==
    IF fn = "download_images" THEN urls = <<>> ELSE DistinctUrls(urls) = {}

RetryAfterFailure(pending, url) == pending \cup {url}

\* The URLs still to request after a failed one: the loop goes on to the
\* next URL of the set.
AfterFailure(pending, url) == pending

InitDownload ==
    /\ pc = "dl_start"
    /\ \E content_posts \in SeqsUpTo(ImagePosts, MaxImagePosts), fn \in Downloaders :
           net = [content_posts |-> content_posts, fn |-> fn,
                  pending |-> {}, url |-> "", requests |-> <<>>, failed |-> {},
                  results |-> EmptyDict, images |-> EmptyDict, sections |-> <<>>]
    /\ cli = <<>> /\ gmail = <<>>
    /\ PureIdle /\ FetchIdle /\ ExportIdle

\* epub_service.py:155-156 with a non-empty URL list: download_images is
\* called and makes the set of the non-empty URLs (line 80);
\* gmail_epub_service.py:238-245 with a non-empty URL in the list.
DownloadBegin ==
    /\ pc = "dl_start"
    /\ ~NothingToDownload(net.fn, AllImageUrls(net.content_posts, 1))
    /\ net' = [net EXCEPT !.pending = DistinctUrls(AllImageUrls(net.content_posts, 1))]
    /\ pc' = "dl_loop"
    /\ UNCHANGED <<pureData, fetchData, ex, cli, gmail>>

\* epub_service.py:156 with no URL: images = {}; gmail_epub_service.py:240-241
\* without a non-empty URL: return results.
DownloadNothing ==
    /\ pc = "dl_start"
    /\ NothingToDownload(net.fn, AllImageUrls(net.content_posts, 1))
    /\ net' = [net EXCEPT !.images = EmptyDict]
    /\ pc' = "dl_build"
    /\ UNCHANGED <<pureData, fetchData, ex, cli, gmail>>

\* Lines 80-81 and 29-31: the next URL of the set, in the set's order, is
\* requested.
DownloadRequest ==
    /\ pc = "dl_loop"
    /\ \E url \in net.pending :
           net' = [net EXCEPT !.pending = @ \ {url}, !.url = url,
                              !.requests = Append(@, url)]
    /\ pc' = "dl_await"
    /\ UNCHANGED <<pureData, fetchData, ex, cli, gmail>>

\* Lines 31-33 and 82-84: the response has content; it is compressed (or kept
\* as it is when compression fails) and stored under its URL.
DownloadOk ==
    /\ pc = "dl_await"
    /\ net' = [net EXCEPT !.results = DictSet(@, net.url, "bytes")]
    /\ pc' = "dl_loop"
    /\ UNCHANGED <<pureData, fetchData, ex, cli, gmail>>

\* Lines 34-36 and 82: the request raises (connection error, timeout, HTTP
\* error status), or the response is empty; _download_image returns None or
\* b"", and nothing is stored.
DownloadFail ==
    /\ pc = "dl_await"
    /\ net' = [net EXCEPT !.failed = @ \cup {net.url},
                          !.pending = AfterFailure(@, net.url)]
    /\ pc' = "dl_loop"
    /\ UNCHANGED <<pureData, fetchData, ex, cli, gmail>>

\* Line 85: the set is exhausted, download_images returns.
DownloadReturn ==
    /\ pc = "dl_loop"
    /\ net.pending = {}
    /\ net' = [net EXCEPT !.images = net.results]
    /\ pc' = "dl_build"
    /\ UNCHANGED <<pureData, fetchData, ex, cli, gmail>>

\* epub_service.py:161-162: builder.build(content_posts, images, output_path).
DownloadBuild ==
    /\ pc = "dl_build"
    /\ net' = [net EXCEPT !.sections = BuildSections(net.content_posts, net.images)]
    /\ pc' = "dl_done"
    /\ UNCHANGED <<pureData, fetchData, ex, cli, gmail>>

NextDownload ==
    \/ DownloadBegin
    \/ DownloadNothing
    \/ DownloadRequest
    \/ DownloadOk
    \/ DownloadFail
    \/ DownloadReturn
    \/ DownloadBuild

SpecDownload == InitDownload /\ [][NextDownload]_vars

\* C15: a failed image download does not abort the export: download_images
\* leaves the failed URL out of its result and still requests and stores the
\* other URLs, and the builder leaves out an image without bytes while it
\* emits the post's text and its other images.
C15_FailedDownloadNotFatal ==
    LET wanted == DistinctUrls(AllImageUrls(net.content_posts, 1)) IN
    /\ pc \in {"dl_build", "dl_done"} =>
           /\ Range(net.requests) = wanted
           /\ DOMAIN net.images = wanted \ net.failed
    /\ pc = "dl_done" =>
           /\ Len(net.sections) = Len(net.content_posts)
           /\ \A i \in 1..Len(net.sections) :
                  /\ net.sections[i].body = net.content_posts[i].body
                  /\ net.sections[i].images =
                         SelectSeq(net.content_posts[i].image_urls,
                                   LAMBDA url : url # "" /\ url \notin net.failed)

\* The first download fails, the second is still made and succeeds, and the
\* post is emitted with the second image only.
C15_Witness ==
    /\ pc = "dl_done"
    /\ Len(net.content_posts) = 1
    /\ net.content_posts[1].image_urls = <<"i1", "i2">>
    /\ net.requests = <<"i1", "i2">>
    /\ net.failed = {"i1"}
    /\ net.sections[1].images = <<"i2">>
    /\ net.sections[1].body = <<"t">>

----------------------------------------------------------------------------
(* GmailService: connect, disconnect, fetch_emails_by_label, with          *)

\* self._connection is None
NoConnection == 0
\* The connections that one service object opens are numbered 1, 2, ...
MaxConnections == 3

\* The last call on the service: its name, the exception that left it ("" for
\* none), the number of logout() calls it made, and whether the service was
\* fresh (no connect() since its creation or its last disconnect) before it.
MkCall(op, raised, logouts, fresh) ==
    [op |-> op, raised |-> raised, logouts |-> logouts, fresh |-> fresh]

\* GmailService(config) (gmail_service.py:48-50)
NewService ==
    [connection |-> NoConnection,  \* self._connection
     authenticated |-> {},         \* connections whose login succeeded
     logged_out |-> {},            \* connections that got a logout()
     logout_failed |-> {},         \* those among them whose logout() raised
     created |-> 0,                \* IMAP4_SSL objects made so far
     in_with |-> FALSE,            \* inside a `with` block of the service
     fresh |-> TRUE,
     last |-> MkCall("init", "", 0, TRUE)]

InitGmail ==
    /\ pc = "gmail"
    /\ gmail = NewService
    /\ cli = <<>> /\ net = <<>>
    /\ PureIdle /\ FetchIdle /\ ExportIdle

\* connect() (gmail_service.py:52-56).  refused: IMAP4_SSL() raises and
\* self._connection keeps its value; login_fails: the new connection is
\* assigned and login() raises.
Connect(g, op, outcome) ==
    IF outcome = "refused"
    THEN [g EXCEPT !.fresh = FALSE, !.last = MkCall(op, "OSError", 0, g.fresh)]
    ELSE LET c == g.created + 1 IN
         [g EXCEPT !.connection = c, !.created = c, !.fresh = FALSE,
                   !.authenticated = IF outcome = "ok" THEN @ \cup {c} ELSE @,
                   !.in_with = IF op = "enter" /\ outcome = "ok" THEN TRUE ELSE @,
                   !.last = MkCall(op, IF outcome = "ok" THEN "" ELSE "imaplib.error",
                                   0, g.fresh)]

DisconnectKeepingOnError(g, op, logout_raises) ==
    IF g.connection = NoConnection \/ ~logout_raises
    THEN [g EXCEPT !.connection = NoConnection, !.fresh = TRUE,
                   !.last = MkCall(op, "", 0, g.fresh)]
    ELSE [g EXCEPT !.logged_out = @ \cup {g.connection},
                   !.last = MkCall(op, "imaplib.error", 1, g.fresh)]

\* disconnect() (gmail_service.py:58-65): logout() on the connection, if
\* there is one, any exception of it swallowed, then self._connection = None.
Disconnect(g, op, logout_raises) ==
    IF g.connection = NoConnection
    THEN [g EXCEPT !.fresh = TRUE, !.in_with = IF op = "exit" THEN FALSE ELSE @,
                   !.last = MkCall(op, "", 0, g.fresh)]
    ELSE [g EXCEPT !.connection = NoConnection, !.fresh = TRUE,
                   !.logged_out = @ \cup {g.connection},
                   !.logout_failed = IF logout_raises THEN @ \cup {g.connection} ELSE @,
                   !.in_with = IF op = "exit" THEN FALSE ELSE @,
                   !.last = MkCall(op, "", 1, g.fresh)]

\* fetch_emails_by_label (gmail_service.py:86-122): RuntimeError without a
\* connection; on a connection whose login failed, select() raises.
FetchEmails(g) ==
    [g EXCEPT !.last =
        MkCall("fetch",
               IF g.connection = NoConnection THEN "RuntimeError"
               ELSE IF g.connection \notin g.authenticated THEN "imaplib.error"
               ELSE "",
               0, g.fresh)]

\* The body of a `with` block uses the service, it does not connect or
\* disconnect it: inside a block only fetch_emails_by_label is called.
GmailConnect ==
    /\ pc = "gmail" /\ ~gmail.in_with
    /\ gmail.created < MaxConnections
    /\ \E outcome \in {"ok", "refused", "login_fails"} :
           gmail' = Connect(gmail, "connect", outcome)
    /\ UNCHANGED <<pc, pureData, fetchData, ex, cli, net>>

GmailDisconnect ==
    /\ pc = "gmail" /\ ~gmail.in_with
    /\ \E logout_raises \in BOOLEAN :
           gmail' = Disconnect(gmail, "disconnect", logout_raises)
    /\ UNCHANGED <<pc, pureData, fetchData, ex, cli, net>>

GmailFetch ==
    /\ pc = "gmail"
    /\ gmail' = FetchEmails(gmail)
    /\ UNCHANGED <<pc, pureData, fetchData, ex, cli, net>>

\* __enter__ (lines 67-69); the block is entered when connect() returns.
GmailEnter ==
    /\ pc = "gmail" /\ ~gmail.in_with
    /\ gmail.created < MaxConnections
    /\ \E outcome \in {"ok", "refused", "login_fails"} :
           gmail' = Connect(gmail, "enter", outcome)
    /\ UNCHANGED <<pc, pureData, fetchData, ex, cli, net>>

\* __exit__ (lines 71-72), at the end of the block or when its body raises.
GmailExit ==
    /\ pc = "gmail" /\ gmail.in_with
    /\ \E logout_raises \in BOOLEAN :
           gmail' = Disconnect(gmail, "exit", logout_raises)
    /\ UNCHANGED <<pc, pureData, fetchData, ex, cli, net>>

NextGmail ==
    \/ GmailConnect
    \/ GmailDisconnect
    \/ GmailFetch
    \/ GmailEnter
    \/ GmailExit

SpecGmail == InitGmail /\ [][NextGmail]_vars

----------------------------------------------------------------------------
(* export_gmail_to_epub                                                    *)

MaxEmails == 2

UntitledEmail == <<"Untitled Email">>

\* RawEmail (gmail_service.py): uid, subject, date and the two bodies.  A
\* body that is None and a body that is "" are both falsy and both <<>>
\* here.  parse_raises marks an email on which parse_raw_email raises.
MkRawEmail(uid, subject, date, html_body, text_body, parse_raises) ==
    [uid |-> uid, subject |-> subject, date |-> date, html_body |-> html_body,
     text_body |-> text_body, parse_raises |-> parse_raises]

\* _escape_html leaves the text a non-empty text; its characters are not
\* looked at by the export.
WrapText(text_body) == <<"<pre>">> \o text_body \o <<"</pre>">>

ParseIgnoringText(raw) ==
    IF raw.parse_raises
    THEN [kind |-> "raises", uid |-> raw.uid, title |-> <<>>, html_body |-> <<>>,
          published |-> raw.date]
    ELSE IF raw.html_body = <<>>
    THEN [kind |-> "none", uid |-> raw.uid, title |-> <<>>, html_body |-> <<>>,
          published |-> raw.date]
    ELSE [kind |-> "content", uid |-> raw.uid, title |-> raw.subject,
          html_body |-> raw.html_body, published |-> raw.date]

\* parse_raw_email (email_content.py:34-68): the result is an exception, None
\* or an EmailContent.
parse_raw_email(raw) ==
    IF raw.parse_raises
    THEN [kind |-> "raises", uid |-> raw.uid, title |-> <<>>, html_body |-> <<>>,
          published |-> raw.date]
    ELSE IF raw.html_body = <<>> /\ raw.text_body = <<>>
    THEN [kind |-> "none", uid |-> raw.uid, title |-> <<>>, html_body |-> <<>>,
          published |-> raw.date]
    ELSE LET html_body == IF raw.html_body # <<>> THEN raw.html_body
                          ELSE WrapText(raw.text_body)
             stripped == Strip(raw.subject)
         IN  [kind |-> "content", uid |-> raw.uid,
              title |-> IF stripped = <<>> THEN UntitledEmail ELSE stripped,
              html_body |-> html_body, published |-> raw.date]

\* EmailEpubBuilder.build (gmail_epub_service.py:272-370): one chapter
\* email_<idx>.xhtml per element of emails, in their order.
BuildChapters(emails) ==
    [idx \in 1..Len(emails) |->
        [file_name |-> idx, title |-> emails[idx].title, uid |-> emails[idx].uid,
         published |-> emails[idx].published]]

RawEmails ==
    UNION {[1..n -> [subject : {<<" ">>, <<"s">>}, date : 1..2,
                     html_body : {<<>>, <<"h">>}, text_body : {<<>>, <<"t">>},
                     parse_raises : BOOLEAN]] : n \in 0..MaxEmails}

InitGmailExport ==
    /\ pc = "gx_start"
    /\ \E w \in RawEmails :
           gmail = [service |-> NewService,
                    mailbox |-> [k \in 1..Len(w) |->
                                   MkRawEmail(k, w[k].subject, w[k].date, w[k].html_body,
                                              w[k].text_body, w[k].parse_raises)],
                    raw_emails |-> <<>>, i |-> 1, email_contents |-> <<>>,
                    skipped |-> {}, chapters |-> <<>>, written |-> FALSE,
                    ret |-> "", raised |-> ""]
    /\ cli = <<>> /\ net = <<>>
    /\ PureIdle /\ FetchIdle /\ ExportIdle

\* with GmailService(config) as service: __enter__ connects; an exception of
\* connect() leaves export_gmail_to_epub.
GmailExportEnter ==
    /\ pc = "gx_start"
    /\ \E outcome \in {"ok", "refused", "login_fails"} :
           LET service == Connect(gmail.service, "enter", outcome) IN
           /\ gmail' = [gmail EXCEPT !.service = service, !.raised = service.last.raised]
           /\ pc' = IF service.last.raised = "" THEN "gx_with" ELSE "gx_raised"
    /\ UNCHANGED <<pureData, fetchData, ex, cli, net>>

\* raw_emails = service.fetch_emails_by_label(...), then __exit__; an
\* exception of the fetch (fetch_raises: the server refuses the label or
\* the search) leaves the function after __exit__.
GmailExportFetch ==
    /\ pc = "gx_with"
    /\ \E fetch_raises, logout_raises \in BOOLEAN :
           LET fetched == FetchEmails(gmail.service)
               raised == IF fetched.last.raised # "" THEN fetched.last.raised
                         ELSE IF fetch_raises THEN "imaplib.error" ELSE ""
           IN  /\ gmail' = [gmail EXCEPT
                               !.service = Disconnect(fetched, "exit", logout_raises),
                               !.raw_emails = IF raised = "" THEN gmail.mailbox ELSE <<>>,
                               !.raised = raised]
               /\ pc' = IF raised = "" THEN "gx_fetched" ELSE "gx_raised"
    /\ UNCHANGED <<pureData, fetchData, ex, cli, net>>

\* if not raw_emails: return None
GmailExportNoEmails ==
    /\ pc = "gx_fetched"
    /\ gmail.raw_emails = <<>>
    /\ gmail' = [gmail EXCEPT !.ret = "None"]
    /\ pc' = "gx_done"
    /\ UNCHANGED <<pureData, fetchData, ex, cli, net>>

\* One round of `for raw in raw_emails` (lines 406-413).
GmailExportParse ==
    /\ pc = "gx_fetched"
    /\ gmail.raw_emails # <<>>
    /\ gmail.i <= Len(gmail.raw_emails)
    /\ LET raw == gmail.raw_emails[gmail.i]
           content == parse_raw_email(raw)
       IN  gmail' = [gmail EXCEPT
                        !.i = @ + 1,
                        !.email_contents = IF content.kind = "content"
                                           THEN Append(@, content) ELSE @,
                        !.skipped = IF content.kind = "content" THEN @
                                    ELSE @ \cup {raw.uid}]
    /\ UNCHANGED <<pc, pureData, fetchData, ex, cli, net>>

\* if not email_contents: return None
GmailExportNoneParsed ==
    /\ pc = "gx_fetched"
    /\ gmail.raw_emails # <<>>
    /\ gmail.i > Len(gmail.raw_emails)
    /\ gmail.email_contents = <<>>
    /\ gmail' = [gmail EXCEPT !.ret = "None"]
    /\ pc' = "gx_done"
    /\ UNCHANGED <<pureData, fetchData, ex, cli, net>>

\* email_contents.sort(key=published, reverse=True), the image downloads
\* (whose failures drop images, not emails) and builder.build(...), which
\* writes the EPUB and returns its path.
GmailExportBuild ==
    /\ pc = "gx_fetched"
    /\ gmail.raw_emails # <<>>
    /\ gmail.i > Len(gmail.raw_emails)
    /\ gmail.email_contents # <<>>
    /\ LET sorted == SortedByPublished(gmail.email_contents) IN
       gmail' = [gmail EXCEPT !.email_contents = sorted,
                              !.chapters = BuildChapters(sorted),
                              !.written = TRUE,
                              !.ret = "output_path"]
    /\ pc' = "gx_done"
    /\ UNCHANGED <<pureData, fetchData, ex, cli, net>>

NextGmailExport ==
    \/ GmailExportEnter
    \/ GmailExportFetch
    \/ GmailExportNoEmails
    \/ GmailExportParse
    \/ GmailExportNoneParsed
    \/ GmailExportBuild

SpecGmailExport == InitGmailExport /\ [][NextGmailExport]_vars

\* The fetched emails that parse to content: parsing does not raise and the
\* email has an HTML body or a text body.
ParsingUids ==
    {k \in 1..Len(gmail.raw_emails) :
        /\ ~gmail.raw_emails[k].parse_raises
        /\ gmail.raw_emails[k].html_body # <<>> \/ gmail.raw_emails[k].text_body # <<>>}

\* C17: when export_gmail_to_epub returns, the EPUB has one chapter for
\* exactly the fetched emails that parse to content; when no email was
\* fetched or none parses it returns None and no EPUB is written.
C17_ChaptersForParsedEmails ==
    pc = "gx_done" =>
        /\ {gmail.chapters[c].uid : c \in 1..Len(gmail.chapters)} = ParsingUids
        /\ Len(gmail.chapters) = Cardinality(ParsingUids)
        /\ ParsingUids = {} <=> gmail.ret = "None"
        /\ gmail.ret = "None" <=> ~gmail.written
        /\ gmail.skipped = (1..Len(gmail.raw_emails)) \ ParsingUids

\* Two emails in one export: the first raises while parsing and is skipped,
\* the second has a text body only and gets the one chapter of the EPUB.
C17_Witness ==
    /\ pc = "gx_done"
    /\ Len(gmail.raw_emails) = 2
    /\ gmail.raw_emails[1].parse_raises
    /\ gmail.raw_emails[1].html_body = <<"h">>
    /\ gmail.raw_emails[2].html_body = <<>> /\ gmail.raw_emails[2].text_body = <<"t">>
    /\ gmail.skipped = {1}
    /\ gmail.written
    /\ Len(gmail.chapters) = 1
    /\ gmail.chapters[1].uid = 2

----------------------------------------------------------------------------
(* fetch_twitter_posts                                                     *)

MaxUsers == 2
MaxTweets == 2
MaxTwLimit == 3

\* map_twitter_entries_to_content (twitter_feed.py:258-322): the entries of
\* one user, without those older than the cutoff (NoCutoff: since_days is
\* None) and those whose text is empty, in the order of the feed.  tweet
\* numbers the entry in its feed.
RECURSIVE MapEntries(_, _, _, _)
MapEntries(entries, username, cutoff_time, k) ==
    IF k > Len(entries) THEN <<>>
    ELSE LET entry == entries[k]
             rest == MapEntries(entries, username, cutoff_time, k + 1)
         IN  IF cutoff_time # NoCutoff /\ entry.published < cutoff_time THEN rest
             ELSE IF ~entry.body THEN rest
             ELSE <<[author |-> username, tweet |-> k,
                     published |-> entry.published]>> \o rest

TakeAll(posts, limit) == posts

\* all_posts[:limit], limit >= 0
TakeLimit(posts, limit) ==
    SubSeq(posts, 1, IF limit < Len(posts) THEN limit ELSE Len(posts))

\* An RSS entry: its timestamp and whether its text is non-empty.
TwEntries ==
    [published : 1..3, body : {TRUE}] \cup [published : {2}, body : {FALSE}]

TwFeeds == SeqsUpTo(TwEntries, MaxTweets)

InitTwitter ==
    /\ pc = "tw_start"
    /\ \E n \in 0..MaxUsers, limit \in 0..MaxTwLimit, cutoff_time \in {NoCutoff, 2} :
       \E feeds \in [1..n -> TwFeeds] :
           net = [config |-> [u \in 1..n |-> u],   \* usernames of the config file
                  feeds |-> feeds,                  \* what Nitter has for each
                  limit |-> limit, cutoff |-> cutoff_time,
                  users |-> <<>>, u |-> 1, all_posts |-> <<>>,
                  requests |-> <<>>, result |-> <<>>]
    /\ cli = <<>> /\ gmail = <<>>
    /\ PureIdle /\ FetchIdle /\ ExportIdle

\* users = load_twitter_users(config_path)
TwLoadUsers ==
    /\ pc = "tw_start"
    /\ net.config # <<>>
    /\ net' = [net EXCEPT !.users = net.config]
    /\ pc' = "tw_loop"
    /\ UNCHANGED <<pureData, fetchData, ex, cli, gmail>>

\* if not users: return []
TwNoUsers ==
    /\ pc = "tw_start"
    /\ net.config = <<>>
    /\ net' = [net EXCEPT !.result = <<>>]
    /\ pc' = "tw_done"
    /\ UNCHANGED <<pureData, fetchData, ex, cli, gmail>>

\* One round of `for username in users`: the feed is requested (reachable:
\* its entries; every instance failing: no entries), mapped and appended.
TwFetchUser ==
    /\ pc = "tw_loop"
    /\ net.u <= Len(net.users)
    /\ \E reachable \in BOOLEAN :
           LET username == net.users[net.u]
               entries == IF reachable THEN net.feeds[net.u] ELSE <<>>
               posts == MapEntries(entries, username, net.cutoff, 1)
           IN  net' = [net EXCEPT
                          !.feeds[net.u] = entries,
                          !.requests = Append(@, username),
                          !.all_posts = @ \o posts,
                          !.u = @ + 1]
    /\ UNCHANGED <<pc, pureData, fetchData, ex, cli, gmail>>

\* all_posts.sort(key=published, reverse=True); return all_posts[:limit]
TwReturn ==
    /\ pc = "tw_loop"
    /\ net.u > Len(net.users)
    /\ LET sorted == SortedByPublished(net.all_posts) IN
       net' = [net EXCEPT !.all_posts = sorted,
                          !.result = TakeLimit(sorted, net.limit)]
    /\ pc' = "tw_done"
    /\ UNCHANGED <<pureData, fetchData, ex, cli, gmail>>

NextTwitter ==
    \/ TwLoadUsers
    \/ TwNoUsers
    \/ TwFetchUser
    \/ TwReturn

SpecTwitter == InitTwitter /\ [][NextTwitter]_vars

\* The posts of all configured users: the entries that the feeds delivered,
\* recent enough and with text.
TwAllPosts ==
    UNION {{[author |-> u, tweet |-> k, published |-> net.feeds[u][k].published] :
               k \in {j \in 1..Len(net.feeds[u]) :
                         /\ net.feeds[u][j].body
                         /\ net.cutoff = NoCutoff
                            \/ net.feeds[u][j].published >= net.cutoff}} :
           u \in 1..Len(net.config)}

\* C18: the result of fetch_twitter_posts is sorted by published, newest
\* first, has at most limit items, and is the limit newest posts of all
\* configured users together; without configured users it is empty and no
\* feed is requested.
C18_NewestAcrossUsers ==
    pc = "tw_done" =>
        LET result == net.result
            returned == Range(result)
        IN  /\ \A a, b \in 1..Len(result) :
                   a < b => result[a].published >= result[b].published
            /\ Len(result) <= net.limit
            /\ returned \subseteq TwAllPosts
            /\ Cardinality(returned) = Len(result)
            /\ Len(result) = IF net.limit < Cardinality(TwAllPosts)
                              THEN net.limit ELSE Cardinality(TwAllPosts)
            /\ \A p \in returned, q \in TwAllPosts \ returned :
                   p.published >= q.published
            /\ net.config = <<>> => result = <<>> /\ net.requests = <<>>

\* limit 2 over two users: the first user has two posts, the second one
\* newer post; the result is the second user's post and the newer of the
\* first user's, so the first user's older post is cut after the merge.
C18_Witness ==
    /\ pc = "tw_done"
    /\ net.limit = 2
    /\ net.requests = <<1, 2>>
    /\ Len(net.all_posts) = 3
    /\ net.result = <<[author |-> 2, tweet |-> 1, published |-> 3],
                      [author |-> 1, tweet |-> 2, published |-> 2]>>
    /\ [author |-> 1, tweet |-> 1, published |-> 1] \in TwAllPosts

----------------------------------------------------------------------------
(* _escape_hashtags                                                        *)

MaxTextLen == 6

\* The characters of a text: '#', a word character (\w), a space and a
\* line break.
HashChars == {"#", "a", " ", "\n"}
WordChars == {"a"}

\* The number of '#' from position i on.
RECURSIVE HashRun(_, _)
HashRun(text, i) ==
    IF i > Len(text) \/ text[i] # "#" THEN 0 ELSE 1 + HashRun(text, i + 1)

TextStart(text, i) == i = 1

\* ^ under re.MULTILINE: the start of the text and the position after each
\* line break.
LineStart(text, i) == i = 1 \/ text[i - 1] = "\n"

\* The length of the match of ^(#+)(\w) at position i, 0 without a match:
\* the longest run of '#' (of those that #+ can take) that a word character
\* follows, and that character.
MatchLen(text, i) ==
    IF ~LineStart(text, i) THEN 0
    ELSE LET runs == {k \in 1..HashRun(text, i) :
                        i + k <= Len(text) /\ text[i + k] \in WordChars}
         IN  IF runs = {} THEN 0
             ELSE (CHOOSE k \in runs : \A j \in runs : j <= k) + 1

\* _HASHTAG_LINE_START.sub(r"\\\1\2", text): the matches, left to right and
\* not overlapping, each replaced by a backslash and itself.
RECURSIVE SubHashtags(_, _)
SubHashtags(text, i) ==
    IF i > Len(text) THEN <<>>
    ELSE LET m == MatchLen(text, i) IN
         IF m > 0
         THEN <<"\\">> \o SubSeq(text, i, i + m - 1) \o SubHashtags(text, i + m)
         ELSE <<text[i]>> \o SubHashtags(text, i + 1)

\* _escape_hashtags (epub_builder.py:23-32)
_escape_hashtags(text) == IF text = <<>> THEN text ELSE SubHashtags(text, 1)

InitEscape ==
    /\ pc = "call"
    /\ arg \in SeqsUpTo(HashChars, MaxTextLen)
    /\ ret = <<>>
    /\ FetchIdle /\ ExportIdle /\ IoIdle

CallEscape ==
    /\ pc = "call"
    /\ ret' = _escape_hashtags(arg)
    /\ pc' = "done"
    /\ UNCHANGED <<arg, fetchData, ex, ioData>>

NextEscape == CallEscape

SpecEscape == InitEscape /\ [][NextEscape]_vars

\* The lines of a text, without their line breaks.
RECURSIVE SplitLines(_)
SplitLines(text) ==
    IF \A i \in 1..Len(text) : text[i] # "\n" THEN <<text>>
    ELSE LET k == CHOOSE i \in 1..Len(text) :
                      text[i] = "\n" /\ \A j \in 1..(i - 1) : text[j] # "\n"
         IN  <<SubSeq(text, 1, k - 1)>> \o SplitLines(SubSeq(text, k + 1, Len(text)))

\* A line as the claim wants it: with a backslash in front when it starts
\* with one or more '#' and a word character follows them directly.
EscapedLine(line) ==
    IF /\ line # <<>> /\ line[1] = "#"
       /\ \E n \in 1..(Len(line) - 1) :
              /\ \A j \in 1..n : line[j] = "#"
              /\ line[n + 1] \in WordChars
    THEN <<"\\">> \o line
    ELSE line

\* C19: _escape_hashtags puts one backslash before the run of '#' at the
\* start of each line where a word character follows the run directly, and
\* changes nothing else: '# word' lines and '#word' inside a line stay.
C19_EscapesLineStartHashtags ==
    pc = "done" =>
        LET lines == SplitLines(arg) IN
        ret = Join([k \in 1..Len(lines) |-> EscapedLine(lines[k])], <<"\n">>)

\* "a#a\n#a": the hashtag inside the first line stays, the one that starts
\* the second line is escaped.
C19_Witness ==
    /\ pc = "done"
    /\ arg = <<"a", "#", "a", "\n", "#", "a">>
    /\ ret = <<"a", "#", "a", "\n", "\\", "#", "a">>

----------------------------------------------------------------------------
(* fetch_feed_posts (unhook.feed): the end of the pagination               *)

\* A further page has been requested: the request in flight is not the
\* first one, and `response` is the response before it.
FurtherRequest == pc = "fetch_await" /\ calls >= 2

\* C20 as stated: a further page is requested only after a response with
\* items and a cursor, with that cursor, and, with a cutoff, only after a
\* page that has a post at or after the cutoff.
C20_Original ==
    FurtherRequest =>
        /\ response.feed # <<>>
        /\ response.cursor # NoCursor
        /\ request.cursor = response.cursor
        /\ cutoff # NoCutoff =>
               \E i \in 1..Len(response.feed) :
                   /\ response.feed[i].created_at # NoTime
                   /\ response.feed[i].created_at >= cutoff

\* C20: a further page is requested only after a response with items and a
\* cursor, and with that cursor; with a cutoff, no further page is requested
\* after a page all of whose posts carry a created_at earlier than the
\* cutoff, whatever its cursor; the first request carries no cursor.
C20_PaginationStops ==
    /\ FurtherRequest =>
           /\ response.feed # <<>>
           /\ response.cursor # NoCursor
           /\ request.cursor = response.cursor
           /\ cutoff # NoCutoff =>
                  \E i \in 1..Len(response.feed) :
                      \/ response.feed[i].created_at = NoTime
                      \/ response.feed[i].created_at >= cutoff
    /\ pc = "fetch_await" /\ calls = 1 => request.cursor = NoCursor
    /\ /\ pc \in {"fetch_loop", "fetch_done"}
       /\ calls >= 1
       /\ \/ response.feed = <<>>
          \/ response.cursor = NoCursor
          \/ /\ cutoff # NoCutoff
             /\ \A i \in 1..Len(response.feed) :
                    /\ response.feed[i].created_at # NoTime
                    /\ response.feed[i].created_at < cutoff
       => pc = "fetch_done"

\* With a cutoff, a first page of one old post came with a cursor, and the
\* function returned after that one request.
C20_Witness ==
    /\ pc = "fetch_done"
    /\ cutoff # NoCutoff
    /\ calls = 1
    /\ Len(response.feed) = 1
    /\ response.feed[1].created_at # NoTime
    /\ response.feed[1].created_at < cutoff
    /\ response.cursor = "c1"
    /\ all_posts = <<>>
    /\ call.limit = 3

----------------------------------------------------------------------------
(* fetch_feed_posts (unhook.feed): termination                             *)

\* The function runs to its end: the code is one sequential loop, and every
\* request it waits for is answered.
FairFetch == SpecFetch /\ WF_vars(NextFetch)

\* One round of the while loop that goes on to the next round.
RoundGoesOn == pc = "fetch_await" /\ pc' = "fetch_loop"

\* C21: fetch_feed_posts terminates for every sequence of server responses:
\* every round of the loop that does not leave it adds at least one post, at
\* most max(limit, 0) page requests are issued, and the function returns or
\* raises in the end.
C21_Terminates ==
    /\ [][RoundGoesOn => Len(all_posts') > Len(all_posts)]_vars
    /\ [](calls <= IF call.limit > 0 THEN call.limit ELSE 0)
    /\ <>(pc \in {"fetch_done", "fetch_raised"})

\* limit 3 against a server that answers every request with one recent post
\* and a cursor: three requests, three posts, and the function has returned
\* although the last response still carries a cursor.
C21_Witness ==
    /\ pc = "fetch_done"
    /\ call.limit = 3 /\ calls = 3
    /\ Len(all_posts) = 3
    /\ Len(response.feed) = 1
    /\ response.cursor # NoCursor
    /\ request.cursor # NoCursor

----------------------------------------------------------------------------
(* export_recent_posts_to_epub: the length thresholds                      *)

\* The items of a list that have at least n characters of body.
LongEnough(items, n) == SelectSeq(items, LAMBDA item : Len(item.body) >= n)

\* The bag of the elements of a sequence.
BagOf(items) ==
    [x \in Range(items) |-> Cardinality({i \in 1..Len(items) : items[i] = x})]

\* C22: of the native items (posts and consolidated native threads) exactly
\* those with a body of min_length characters or more are kept, of the
\* repost items exactly those with a body of repost_min_length characters or
\* more; the EPUB gets the kept items of both classes and nothing else.
C22_ThresholdByClass ==
    pc \in {"ex_build", "ex_done"} =>
        /\ ex.native_content = LongEnough(ex.native_mapped, ex.min_length)
        /\ ex.repost_content = LongEnough(ex.repost_mapped, ex.repost_min_length)
        /\ BagOf(ex.content_posts) = BagOf(ex.native_content \o ex.repost_content)
        /\ pc = "ex_done" => ex.built = ex.content_posts

\* The same three characters as a native post and as a repost, min_length 6
\* and repost_min_length 0: the native item is dropped, the repost is kept.
C22_Witness ==
    /\ pc = "ex_done"
    /\ ex.min_length = 6 /\ ex.repost_min_length = 0
    /\ Len(ex.native_mapped) = 1 /\ Len(ex.repost_mapped) = 1
    /\ ex.native_mapped[1].body = <<"c", "c", "c">>
    /\ ex.repost_mapped[1].body = <<"c", "c", "c">>
    /\ Len(ex.built) = 1
    /\ ex.built[1].reposted_by = "r"

----------------------------------------------------------------------------
(* fetch_twitter_rss                                                       *)

MaxInstances == 3

\* What one Nitter instance answers: no RSS content (_fetch_rss_content
\* returns None), or content that feedparser parses with or without the
\* bozo flag, into some entries or none.
InstanceAnswers ==
    {[content |-> FALSE, bozo |-> FALSE, entries |-> 0]}
        \cup [content : {TRUE}, bozo : BOOLEAN, entries : 0..1]

BozoAccepted(answer) == FALSE

\* Line 153: feed.bozo
IsBozo(answer) == answer.bozo

\* list(feed.entries): the entries are tagged with the instance they are from.
EntriesOf(instances, i) == [k \in 1..instances[i].entries |-> i]

InitRss ==
    /\ pc = "rss_loop"
    /\ \E instances \in SeqsUpTo(InstanceAnswers, MaxInstances) :
           net = [instances |-> instances, i |-> 1, requests |-> <<>>,
                  in_flight |-> 0, result |-> <<>>]
    /\ cli = <<>> /\ gmail = <<>>
    /\ PureIdle /\ FetchIdle /\ ExportIdle

\* for instance in instances: content = _fetch_rss_content(url), one
\* httpx.get per call.
RssRequest ==
    /\ pc = "rss_loop"
    /\ net.i <= Len(net.instances)
    /\ net' = [net EXCEPT !.requests = Append(@, net.i), !.in_flight = 1]
    /\ pc' = "rss_await"
    /\ UNCHANGED <<pureData, fetchData, ex, cli, gmail>>

\* Lines 148-162: content is None, or the feed is bozo: the next instance.
RssNextInstance ==
    /\ pc = "rss_await"
    /\ LET answer == net.instances[net.i] IN ~answer.content \/ IsBozo(answer)
    /\ net' = [net EXCEPT !.i = @ + 1, !.in_flight = 0]
    /\ pc' = "rss_loop"
    /\ UNCHANGED <<pureData, fetchData, ex, cli, gmail>>

\* Lines 163-171: a parsed feed: [] when it has no entries, else its entries.
RssReturnFeed ==
    /\ pc = "rss_await"
    /\ LET answer == net.instances[net.i] IN answer.content /\ ~IsBozo(answer)
    /\ net' = [net EXCEPT !.result = EntriesOf(net.instances, net.i), !.in_flight = 0]
    /\ pc' = "rss_done"
    /\ UNCHANGED <<pureData, fetchData, ex, cli, gmail>>

\* Lines 172-173: all instances failed, return [].
RssAllFailed ==
    /\ pc = "rss_loop"
    /\ net.i > Len(net.instances)
    /\ net' = [net EXCEPT !.result = <<>>]
    /\ pc' = "rss_done"
    /\ UNCHANGED <<pureData, fetchData, ex, cli, gmail>>

NextRss ==
    \/ RssRequest
    \/ RssNextInstance
    \/ RssReturnFeed
    \/ RssAllFailed

SpecRss == InitRss /\ [][NextRss]_vars

\* The instances that yield a parsable feed.
Parsable == {i \in 1..Len(net.instances) :
                net.instances[i].content /\ ~net.instances[i].bozo}

\* C23: fetch_twitter_rss asks the instances in list order, each once, up to
\* and including the first that yields a parsable feed, whose entries it
\* returns ([] for a feed without entries); it goes past an instance only
\* when that one gave no content or unparsable RSS, and returns [] when all
\* fail.
C23_FirstParsableInstance ==
    /\ net.requests = [k \in 1..Len(net.requests) |-> k]
    /\ \A k \in 1..Len(net.requests) - 1 : k \notin Parsable
    /\ pc = "rss_done" =>
           IF Parsable = {}
           THEN /\ net.result = <<>>
                /\ Len(net.requests) = Len(net.instances)
           ELSE LET first == CHOOSE i \in Parsable : \A j \in Parsable : i <= j
                IN  /\ Len(net.requests) = first
                    /\ net.result = [k \in 1..net.instances[first].entries |-> first]

\* Three instances: the first gives no content, the second RSS that does not
\* parse, the third a feed with an entry, which is the result.
C23_Witness ==
    /\ pc = "rss_done"
    /\ Len(net.instances) = 3
    /\ ~net.instances[1].content
    /\ net.instances[2].content /\ net.instances[2].bozo /\ net.instances[2].entries = 1
    /\ net.requests = <<1, 2, 3>>
    /\ net.result = <<3>>

----------------------------------------------------------------------------
(* download_images, download_external_images: one request per URL          *)

\* The URLs whose request has been answered.
Completed == DOMAIN net.results \cup net.failed

----------------------------------------------------------------------------
(* The pipeline on objects: what the functions store, and where             *)

\* Python passes the posts by reference.  `heap` is the sequence of the
\* objects made so far, an object's number its identity; a list object holds
\* the numbers of its elements.  The fetched posts are objects 1..n and the
\* list that fetch_feed_posts returned is object n + 1.
PostObject(post) == [kind |-> "post", val |-> post]
ListObject(ids) == [kind |-> "list", val |-> ids]
ContentObject(content) == [kind |-> "content", val |-> content]

\* The values of the elements of a list of references.
Deref(heap, ids) == [i \in 1..Len(ids) |-> heap[ids[i]].val]

\* A store into object `id`: a new object when id is the next free number.
StoreAt(heap, id, object) ==
    IF id = Len(heap) + 1 THEN Append(heap, object) ELSE [heap EXCEPT ![id] = object]

\* New objects for a sequence of values; the numbers they get are
\* Len(heap) + 1, Len(heap) + 2, ...
RECURSIVE AllocAll(_, _, _)
AllocAll(heap, objects, k) ==
    IF k > Len(objects) THEN heap
    ELSE AllocAll(StoreAt(heap, Len(heap) + 1, objects[k]), objects, k + 1)
NewIds(heap, n) == [k \in 1..n |-> Len(heap) + k]

\* posts_by_uri[uri] (feed.py:47-50): the last post of the list with the URI.
RefByUri(heap, ids, uri) ==
    ids[CHOOSE i \in 1..Len(ids) :
            /\ heap[ids[i]].val.uri = uri
            /\ \A j \in (i + 1)..Len(ids) : heap[ids[j]].val.uri # uri]

RootPostTarget(heap, thread) == thread[1]

\* feed.py:129-141: consolidated.append({"post": {...}}), a dict literal: the
\* consolidated post is stored in a new object.
ConsolidatedTarget(heap, thread) == Len(heap) + 1

\* consolidate_threads_to_posts on a list of chains of references.
RECURSIVE ConsolidateObjects(_, _, _, _)
ConsolidateObjects(heap, threads, k, made) ==
    IF k > Len(threads) THEN [heap |-> heap, ids |-> made]
    ELSE LET target == ConsolidatedTarget(heap, threads[k])
             value == ConsolidateThread(Deref(heap, threads[k]))
         IN  ConsolidateObjects(StoreAt(heap, target, PostObject(value)), threads, k + 1,
                                Append(made, target))

\* dedupe_posts on references (post_content.py:30-34): the positions whose
\* URI is set and not at an earlier position.
DedupeRefs(heap, ids) ==
    LET keep == {i \in 1..Len(ids) :
                    /\ heap[ids[i]].val.uri # NoUri
                    /\ \A j \in 1..(i - 1) : heap[ids[j]].val.uri # heap[ids[i]].val.uri}
        nth(k) == CHOOSE i \in keep : Cardinality({j \in keep : j <= i}) = k
    IN  [k \in 1..Cardinality(keep) |-> ids[nth(k)]]

InitFrame ==
    /\ pc = "fr_start"
    /\ \E w \in ExportWorlds :
       \E feed \in SeqsUpTo(ExportItems(w), MaxFeed) :
           LET fetched == [i \in 1..Len(feed) |-> PostObject(feed[i])]
                              \o <<ListObject([i \in 1..Len(feed) |-> i])>>
           IN  ex = [fetched |-> fetched, heap |-> fetched, posts |-> Len(feed) + 1,
                     threads |-> <<>>, consolidated |-> <<>>, unique |-> <<>>,
                     mapped |-> <<>>, repost_mapped |-> <<>>]
    /\ PureIdle /\ FetchIdle /\ IoIdle

\* threads = find_self_threads(posts): every chain is a new list (line 78),
\* filled by chain.append(post) with references to posts of the input and
\* reversed in place (line 90).
FrameFindThreads ==
    /\ pc = "fr_start"
    /\ LET ids == ex.heap[ex.posts].val
           posts == Deref(ex.heap, ids)
       IN  \E leaves \in LeavesOf(posts) :
               LET found == find_self_threads(posts, leaves)
                   chains == [t \in 1..Len(found.threads) |->
                                 ListObject([k \in 1..Len(found.threads[t]) |->
                                     RefByUri(ex.heap, ids, found.threads[t][k].uri)])]
               IN  /\ found.ends
                   /\ ex' = [ex EXCEPT !.heap = AllocAll(@, chains, 1),
                                       !.threads = NewIds(ex.heap, Len(chains))]
    /\ pc' = "fr_threads"
    /\ UNCHANGED <<pureData, fetchData, ioData>>

\* consolidated = consolidate_threads_to_posts(threads)
FrameConsolidate ==
    /\ pc = "fr_threads"
    /\ LET r == ConsolidateObjects(ex.heap, [t \in 1..Len(ex.threads) |->
                                                ex.heap[ex.threads[t]].val], 1, <<>>)
       IN  ex' = [ex EXCEPT !.heap = r.heap, !.consolidated = r.ids]
    /\ pc' = "fr_consolidated"
    /\ UNCHANGED <<pureData, fetchData, ioData>>

\* unique = dedupe_posts(posts + consolidated): unique_posts is a new list
\* of references.
FrameDedupe ==
    /\ pc = "fr_consolidated"
    /\ LET unique == DedupeRefs(ex.heap, ex.heap[ex.posts].val \o ex.consolidated)
       IN  ex' = [ex EXCEPT !.heap = StoreAt(@, Len(@) + 1, ListObject(unique)),
                           !.unique = unique]
    /\ pc' = "fr_unique"
    /\ UNCHANGED <<pureData, fetchData, ioData>>

\* map_posts_to_content(unique): a new PostContent per post (lines 67-75).
FrameMap ==
    /\ pc = "fr_unique"
    /\ LET contents == map_posts_to_content(Deref(ex.heap, ex.unique))
       IN  ex' = [ex EXCEPT
                     !.heap = AllocAll(@, [k \in 1..Len(contents) |->
                                              ContentObject(contents[k])], 1),
                     !.mapped = NewIds(ex.heap, Len(contents))]
    /\ pc' = "fr_mapped"
    /\ UNCHANGED <<pureData, fetchData, ioData>>

\* _map_reposts_to_content(unique, repost_info): map_posts_to_content makes
\* the items, and content.reposted_by = reposter is a store into them.
FrameMapReposts ==
    /\ pc = "fr_mapped"
    /\ LET posts == Deref(ex.heap, ex.unique)
           reposts == SelectSeq(Deref(ex.heap, ex.heap[ex.posts].val), _is_repost)
           made == map_posts_to_content(posts)
           allocated == AllocAll(ex.heap, [k \in 1..Len(made) |-> ContentObject(made[k])], 1)
           content_list == NewIds(ex.heap, Len(made))
           final == _map_reposts_to_content(posts, _build_repost_info(reposts))
       IN  ex' = [ex EXCEPT
                     !.heap = [id \in 1..Len(allocated) |->
                                  IF \E k \in 1..Len(content_list) : content_list[k] = id
                                  THEN ContentObject(final[id - Len(ex.heap)])
                                  ELSE allocated[id]],
                     !.repost_mapped = content_list]
    /\ pc' = "fr_done"
    /\ UNCHANGED <<pureData, fetchData, ioData>>

NextFrame ==
    \/ FrameFindThreads
    \/ FrameConsolidate
    \/ FrameDedupe
    \/ FrameMap
    \/ FrameMapReposts

SpecFrame == InitFrame /\ [][NextFrame]_vars

\* C25: find_self_threads, consolidate_threads_to_posts, dedupe_posts,
\* map_posts_to_content and _map_reposts_to_content leave every fetched post
\* and the fetched list as they were; what they return refers to the
\* fetched posts or to new objects, and consolidated posts and content
\* items are new objects.
C25_InputsUnchanged ==
    pc \in {"fr_start", "fr_threads", "fr_consolidated", "fr_unique", "fr_mapped", "fr_done"} =>
        LET n == Len(ex.fetched) IN
        /\ \A id \in 1..n : ex.heap[id] = ex.fetched[id]
        /\ \A k \in 1..Len(ex.consolidated) : ex.consolidated[k] > n
        /\ \A k \in 1..Len(ex.mapped) : ex.mapped[k] > n
        /\ \A k \in 1..Len(ex.repost_mapped) : ex.repost_mapped[k] > n
        /\ \A k \in 1..Len(ex.threads) : ex.threads[k] > n
        /\ \A k \in 1..Len(ex.unique) :
               ex.unique[k] < n \/ \E c \in 1..Len(ex.consolidated) : ex.unique[k] = ex.consolidated[c]

\* A root and its reply were fetched, the thread was consolidated into a
\* third post object, mapped, and marked as reposted; the two fetched posts
\* are as they were.
C25_Witness ==
    /\ pc = "fr_done"
    /\ Len(ex.fetched) = 3
    /\ Len(ex.threads) = 1
    /\ ex.heap[ex.threads[1]].val = <<1, 2>>
    /\ Len(ex.consolidated) = 1
    /\ ex.heap[ex.consolidated[1]].val.uri = <<"u1", "#thread">>
    /\ \E k \in 1..Len(ex.repost_mapped) : ex.heap[ex.repost_mapped[k]].val.reposted_by = "r"
    /\ ex.heap[1] = ex.fetched[1] /\ ex.heap[2] = ex.fetched[2]

----------------------------------------------------------------------------
(* find_self_threads: termination                                           *)

\* The interpreter keeps running the function it is in: a step of
\* find_self_threads that can be taken is taken.
FairThreads == SpecThreads /\ WF_vars(NextThreads)

\* The reply parents kept in parent_map (same author, parent in the list)
\* lead from the post with URI `uri` back to that post.
RECURSIVE ReachesUri(_, _, _, _)
ReachesUri(parent_map, from, to, fuel) ==
    /\ fuel > 0
    /\ from \in DOMAIN parent_map
    /\ \/ parent_map[from] = to
       \/ ReachesUri(parent_map, parent_map[from], to, fuel - 1)
OnCycle(posts, uri) == ReachesUri(ParentMap(posts), uri, uri, Len(posts))

\* C26: find_self_threads returns for every list of posts, also when reply
\* parents among posts of one author form a cycle and a further post
\* replies into it.
C26_Terminates == <>(pc = "done")

\* The walk of lines 81-87 is in progress on a list in which a post outside
\* the cycle replies to a post on a cycle: current_uri never becomes None.
C26_SpinsOnCycle ==
    /\ pc = "walk"
    /\ \E i, j \in 1..Len(arg) :
           /\ OnCycle(arg, arg[j].uri)
           /\ ~OnCycle(arg, arg[i].uri)
           /\ arg[i].uri \in DOMAIN ParentMap(arg)
           /\ ParentMap(arg)[arg[i].uri] = arg[j].uri

----------------------------------------------------------------------------
(* export_recent_posts_to_epub: the text of thread members                  *)

\* The native posts of the feed that are in a chain find_self_threads
\* returned for the native posts (line 108).
NativeThreadMembers ==
    {post \in Range(ex.all_posts) :
        /\ ~_is_repost(post)
        /\ \E t \in 1..Len(ex.native_threads) : post \in Range(ex.native_threads[t])}

\* Two chains of the native threads start at the same root post.
BranchingRoot ==
    \E s, t \in 1..Len(ex.native_threads) :
        s # t /\ ex.native_threads[s][1].uri = ex.native_threads[t][1].uri

\* C27: the text of every fetched native post that is a member of a chain
\* found by find_self_threads is contained in the body of some content item
\* handed to the length filter, also when chains branch from one root.
C27_NoThreadTextLost ==
    pc \in {"ex_build", "ex_done"} =>
        \A post \in NativeThreadMembers :
            \E i \in 1..Len(ex.filter_input) : Contains(post.text, ex.filter_input[i].body)

\* Without two chains from one root no text of a member is lost.
ThreadTextKeptWithoutBranch ==
    pc \in {"ex_build", "ex_done"} /\ ~BranchingRoot =>
        \A post \in NativeThreadMembers :
            \E i \in 1..Len(ex.filter_input) : Contains(post.text, ex.filter_input[i].body)

\* The feed is the root u1 and two replies to it by the same author; both
\* chains were consolidated, one item reaches the length filter, and the
\* text of one reply is in no item.
C27_BranchLost ==
    /\ pc = "ex_build"
    /\ Len(ex.all_posts) = 3
    /\ Len(ex.native_threads) = 2
    /\ BranchingRoot
    /\ Len(ex.filter_input) = 1
    /\ \E post \in NativeThreadMembers :
           \A i \in 1..Len(ex.filter_input) : ~Contains(post.text, ex.filter_input[i].body)

----------------------------------------------------------------------------
(* export_recent_posts_to_epub: standalone items and thread members         *)

\* A content item made from a fetched post, not from a consolidated thread.
IsStandalone(item) == BaseUri(item.src) = item.src

\* No two items of the class come from the same URI; a standalone item comes
\* from a post of the class that is in none of the class's threads and is
\* not a reply.
ClassWithoutDoubles(items, posts, threads) ==
    /\ \A i, j \in 1..Len(items) : items[i].src = items[j].src => i = j
    /\ \A i \in 1..Len(items) :
           IsStandalone(items[i]) =>
               /\ \A t \in 1..Len(threads) : \A k \in 1..Len(threads[t]) :
                      threads[t][k].uri # items[i].src
               /\ \E post \in Range(posts) : post.uri = items[i].src
               /\ \A post \in Range(posts) :
                      post.uri = items[i].src => post.parent = NoUri

\* C28: within its class no post is included twice: a native post in a
\* consolidated native thread is not also a standalone native item, a repost
\* in a consolidated repost thread is not also a standalone repost item, and
\* no standalone item is a reply.
C28_NoPostTwiceInClass ==
    pc \in {"ex_build", "ex_done"} =>
        /\ ClassWithoutDoubles(ex.native_mapped,
                               SelectSeq(ex.all_posts, LAMBDA p : ~_is_repost(p)),
                               ex.native_threads)
        /\ ClassWithoutDoubles(ex.repost_mapped,
                               SelectSeq(ex.all_posts, _is_repost),
                               ex.repost_threads)
        /\ Range(ex.native_content) \subseteq Range(ex.native_mapped)
        /\ Range(ex.repost_content) \subseteq Range(ex.repost_mapped)

\* The native posts u1 and its reply u2 are one thread item; the repost of
\* u1 is a standalone repost item.  Neither u1 nor u2 is a standalone native
\* item.
C28_Witness ==
    /\ pc = "ex_build"
    /\ Len(ex.all_posts) = 3
    /\ Len(ex.native_threads) = 1 /\ Len(ex.native_threads[1]) = 2
    /\ Len(ex.native_mapped) = 1 /\ ~IsStandalone(ex.native_mapped[1])
    /\ Len(ex.repost_mapped) = 1 /\ IsStandalone(ex.repost_mapped[1])
    /\ ex.repost_mapped[1].src = ex.native_threads[1][1].uri

----------------------------------------------------------------------------
(* unhook.feed.fetch_feed_posts and unhook_tanha.feed.fetch_feed_posts      *)

MaxPages == 3
MaxPageLen == 2
TwinTimes == {1, 2, 3}
TwinPost(t) == MkPost(<<"u", t>>, "a", NoUri, <<"a">>, t, <<>>, FALSE, "")

\* The items of all pages, in the order the server hands them out.
RECURSIVE Flatten(_, _)
Flatten(pages, k) ==
    IF k > Len(pages) THEN <<>> ELSE pages[k].feed \o Flatten(pages, k + 1)

\* Every item carries created_at, and no item is newer than the one before.
NonIncreasing(pages) ==
    LET items == Flatten(pages, 1)
    IN  /\ \A i \in 1..Len(items) : items[i].created_at # NoTime
        /\ \A i \in 1..(Len(items) - 1) : items[i].created_at >= items[i + 1].created_at

\* The answer to the k-th get_timeline call: the k-th page, and an empty
\* page once the pages are used up.
PageAt(pages, k) == IF k <= Len(pages) THEN pages[k] ELSE NoResponse

TanhaIsOldInclusive(post, cut) ==
    cut # NoCutoff /\ post.created_at # NoTime /\ post.created_at <= cut

\* unhook_tanha/feed.py:83-88: cutoff is not None, created_at_str is set and
\* created_at < cutoff
TanhaIsOld(post, cut) ==
    cut # NoCutoff /\ post.created_at # NoTime /\ post.created_at < cut

\* unhook_tanha/feed.py:79-94, the `for item in response.feed` loop: the
\* items are appended in page order; the function returns at the first old
\* item (line 90), and the loop breaks after the append that fills the limit.
TanhaPageLoop(feed, posts, limit, cut) ==
    LET room == limit - Len(posts)
        olds == {i \in 1..Len(feed) : TanhaIsOld(feed[i], cut)}
        first_old == IF olds = {} THEN Len(feed) + 1
                     ELSE CHOOSE i \in olds : \A j \in olds : i <= j
        taken == IF room <= first_old - 1 THEN room ELSE first_old - 1
    IN  [all_posts |-> posts \o SubSeq(feed, 1, taken),
         returned |-> taken < room /\ first_old <= Len(feed)]

TwinRun == [pc |-> "loop", all_posts |-> <<>>, cursor |-> NoCursor, calls |-> 0]

\* Both functions are called with the same limit, since_days and
\* current_date against servers that hand out the same pages; lines 186-215
\* of unhook/feed.py and 45-68 of unhook_tanha/feed.py (credentials, cutoff,
\* login) are the same statements, and feed="timeline" passes line 207.
InitTwin ==
    /\ pc = "twin_run"
    /\ \E pages \in SeqsUpTo([feed : SeqsUpTo({TwinPost(t) : t \in TwinTimes}, MaxPageLen),
                               cursor : {NoCursor, "c1"}], MaxPages),
          limit \in 0..MaxLimit, since_days \in {NoDays, 0, 1} :
           /\ NonIncreasing(pages)
           /\ ex = [pages |-> pages, limit |-> limit, cut |-> Cutoff(since_days, 2),
                    unhook |-> TwinRun, tanha |-> TwinRun]
    /\ PureIdle /\ FetchIdle /\ IoIdle

\* unhook/feed.py:217-256, one round of the while loop.
UnhookRound ==
    /\ pc = "twin_run"
    /\ ex.unhook.pc = "loop"
    /\ LoopContinues(Len(ex.unhook.all_posts), ex.limit)
    /\ LET page == PageAt(ex.pages, ex.unhook.calls + 1)
           r == PageLoop(page.feed, ex.unhook.all_posts, ex.limit, ex.cut)
       IN  ex' = [ex EXCEPT !.unhook =
                   IF page.feed = <<>>
                   THEN [@ EXCEPT !.calls = @ + 1, !.pc = "done"]
                   ELSE IF StopsAfterOldPage(r.page_has_recent, ex.cut)
                   THEN [@ EXCEPT !.calls = @ + 1, !.all_posts = r.all_posts, !.pc = "done"]
                   ELSE [@ EXCEPT !.calls = @ + 1, !.all_posts = r.all_posts,
                                  !.cursor = page.cursor,
                                  !.pc = IF page.cursor = NoCursor THEN "done" ELSE "loop"]]
    /\ UNCHANGED <<pc, pureData, fetchData, ioData>>

\* unhook/feed.py:217 false, 258: return all_posts
UnhookReturn ==
    /\ pc = "twin_run"
    /\ ex.unhook.pc = "loop"
    /\ ~LoopContinues(Len(ex.unhook.all_posts), ex.limit)
    /\ ex' = [ex EXCEPT !.unhook.pc = "done"]
    /\ UNCHANGED <<pc, pureData, fetchData, ioData>>

\* unhook_tanha/feed.py:71-99, one round of the while loop.
TanhaRound ==
    /\ pc = "twin_run"
    /\ ex.tanha.pc = "loop"
    /\ Len(ex.tanha.all_posts) < ex.limit
    /\ LET page == PageAt(ex.pages, ex.tanha.calls + 1)
           r == TanhaPageLoop(page.feed, ex.tanha.all_posts, ex.limit, ex.cut)
       IN  ex' = [ex EXCEPT !.tanha =
                   IF page.feed = <<>>
                   THEN [@ EXCEPT !.calls = @ + 1, !.pc = "done"]
                   ELSE IF r.returned
                   THEN [@ EXCEPT !.calls = @ + 1, !.all_posts = r.all_posts, !.pc = "done"]
                   ELSE [@ EXCEPT !.calls = @ + 1, !.all_posts = r.all_posts,
                                  !.cursor = page.cursor,
                                  !.pc = IF page.cursor = NoCursor THEN "done" ELSE "loop"]]
    /\ UNCHANGED <<pc, pureData, fetchData, ioData>>

\* unhook_tanha/feed.py:71 false, 101: return all_posts
TanhaReturn ==
    /\ pc = "twin_run"
    /\ ex.tanha.pc = "loop"
    /\ ~(Len(ex.tanha.all_posts) < ex.limit)
    /\ ex' = [ex EXCEPT !.tanha.pc = "done"]
    /\ UNCHANGED <<pc, pureData, fetchData, ioData>>

NextTwin ==
    \/ UnhookRound
    \/ UnhookReturn
    \/ TanhaRound
    \/ TanhaReturn

SpecTwin == InitTwin /\ [][NextTwin]_vars

\* C29: on pages whose posts all carry created_at in non-increasing order,
\* with the same limit, since_days and reference date, the two
\* fetch_feed_posts return the same list of posts.
C29_SameResult ==
    pc = "twin_run" /\ ex.unhook.pc = "done" /\ ex.tanha.pc = "done" =>
        ex.unhook.all_posts = ex.tanha.all_posts

\* unhook_tanha returned at the old post of the first page; unhook.feed
\* skipped it, asked for the second page, found only old posts and stopped.
C29_Witness ==
    /\ pc = "twin_run" /\ ex.unhook.pc = "done" /\ ex.tanha.pc = "done"
    /\ ex.cut # NoCutoff
    /\ ex.tanha.calls = 1 /\ ex.unhook.calls = 2
    /\ Len(ex.pages) >= 2
    /\ Len(ex.pages[1].feed) = 2 /\ Len(ex.pages[2].feed) >= 1
    /\ Len(ex.tanha.all_posts) = 1 /\ Len(ex.tanha.all_posts) < ex.limit
    /\ ex.unhook.all_posts = ex.tanha.all_posts

----------------------------------------------------------------------------
(* find_self_threads: the order of the chains                               *)

\* The results find_self_threads can return for `posts`: one per order in
\* which `for leaf_uri in leaves` (line 77) can meet the leaves, a list built
\* by iterating the set `children` of str (lines 73-75).
ResultsOf(posts) ==
    {find_self_threads(posts, leaves).threads : leaves \in LeavesOf(posts)}

\* C30: the chains find_self_threads returns, and their order, depend on the
\* input list only: every run on the same list returns the same result.
C30_OrderDeterministic ==
    pc = "done" => ResultsOf(arg) = {ret}

\* A root with two replies by its author: the run returned the chain to one
\* reply first, and another run of the same call returns the other first.
C30_TwoOrders ==
    /\ pc = "done"
    /\ Len(arg) = 3
    /\ Len(ret) = 2
    /\ ret[1][1] = ret[2][1]
    /\ <<ret[2], ret[1]>> \in ResultsOf(arg)

====
